---- MODULE Spec2Model ----
(***************************************************************************)
(* Model of the flood-report validation core                               *)
(* (src/src/validation/validator.py and the layers, services and API      *)
(* handlers it is wired to).                                               *)
(*                                                                         *)
(* Numbers.  Every score, weight and bias is a fixed-point integer in     *)
(* millionths ("micro": 1.0 is 1000000).  Terrain values (metres,          *)
(* degrees of slope) and rainfall (mm) are in thousandths; coordinates are *)
(* in millionths of a degree.  exp is computed from tables of e^-n,        *)
(* e^-(a/10), e^-(b/100) and a Taylor remainder, to about 2 micro.         *)
(***************************************************************************)
EXTENDS Integers, Sequences, FiniteSets, TLC

(***************************************************************************)
(* Fixed-point arithmetic                                                  *)
(***************************************************************************)
Micro == 1000 * 1000

Abs(x) == IF x < 0 THEN -x ELSE x

Min(a, b) == IF a <= b THEN a ELSE b

Max(a, b) == IF a >= b THEN a ELSE b

\* a * b / 10^6 for 0 <= a <= 2*10^6 and 0 <= b <= 10^6, to the nearest micro
\* (split so that no intermediate product leaves 32 bits).
MulMicro(a, b) ==
    LET hi == (a \div 1000) * b
        lo == ((a % 1000) * b) \div 1000
    IN  (hi + lo + 500) \div 1000

\* a * 10^6 / b for 0 <= a <= b <= 2*10^7, by long division, to the nearest micro.
DivMicro(a, b) ==
    LET n1 == a * 100
        q1 == n1 \div b
        n2 == (n1 % b) * 100
        q2 == n2 \div b
        n3 == (n2 % b) * 100
        q3 == n3 \div b
        r3 == n3 % b
    IN  q1 * 10000 + q2 * 100 + q3 + (IF 2 * r3 >= b THEN 1 ELSE 0)

\* round(x, 3): to the nearest thousandth, ties to even (Python's round on the
\* decimal value the float stands for).  x >= 0 in micro; the result is in micro.
Round3(x) ==
    LET q == x \div 1000
        r == x % 1000
    IN  IF r > 500 \/ (r = 500 /\ q % 2 = 1) THEN (q + 1) * 1000 ELSE q * 1000

SumSeq(s) ==
    LET F[i \in 0..Len(s)] == IF i = 0 THEN 0 ELSE F[i - 1] + s[i]
    IN  F[Len(s)]

MaxSeq(s) ==
    LET F[i \in 1..Len(s)] == IF i = 1 THEN s[1] ELSE Max(F[i - 1], s[i])
    IN  F[Len(s)]

\* e^-n, n = 0..14, in micro; below one micro from n = 15 on.
ExpNegInt == <<1000000, 367879, 135335, 49787, 18316, 6738, 2479, 912, 335,
               123, 45, 17, 6, 2, 1>>

\* e^-(a/10), a = 0..9
ExpNegTenth == <<1000000, 904837, 818731, 740818, 670320, 606531, 548812,
                 496585, 449329, 406570>>

\* e^-(b/100), b = 0..9
ExpNegHundredth == <<1000000, 990050, 980199, 970446, 960789, 951229, 941765,
                     932394, 923116, 913931>>

\* np.exp(-t) for t >= 0 (micro in, micro out).
ExpNeg(t) ==
    LET n == t \div Micro
        f == t % Micro
        a == f \div 100000
        b == (f % 100000) \div 10000
        r == f % 10000
        taylor == Micro - r + ((r * r) \div 2000000)
    IN  IF n >= 15 THEN 0
        ELSE MulMicro(MulMicro(MulMicro(ExpNegInt[n + 1], ExpNegTenth[a + 1]),
                               ExpNegHundredth[b + 1]), taylor)

(***************************************************************************)
(* WeightLearningNetwork (src/src/ml/models/weight_network.py)             *)
(***************************************************************************)
\* _sigmoid: 1 / (1 + exp(-clip(x, -20, 20))).  For x < 0 the value is
\* 1 - sigmoid(-x), which keeps every exponential at most 1.
Sigmoid(x) ==
    LET c == Max(-20 * Micro, Min(20 * Micro, x))
    IN  IF c >= 0 THEN DivMicro(Micro, Micro + ExpNeg(c))
        ELSE Micro - DivMicro(Micro, Micro + ExpNeg(-c))

\* _softmax: exp(x - max(x)) / sum(exp(x - max(x)))
Softmax(w) ==
    LET m == MaxSeq(w)
        e == [i \in 1..Len(w) |-> ExpNeg(m - w[i])]
        s == SumSeq(e)
    IN  [i \in 1..Len(w) |-> DivMicro(e[i], s)]

\* __init__: n_layers, weights = ones(n_layers) / n_layers, bias = 0.0
NewWeightNetwork(n) ==
    [n_layers |-> n, weights |-> [i \in 1..n |-> Micro \div n], bias |-> 0]

\* forward.  np.dot of two vectors of different length raises ValueError.
ForwardRaises(wn, layer_scores) == Len(wn.weights) # Len(layer_scores)

\* A combiner without the sigmoid; C23 must tell the two apart.
ForwardLinear(wn, layer_scores) ==
    LET normalized_weights == Softmax(wn.weights)
    IN  SumSeq([i \in 1..Len(layer_scores) |->
                   MulMicro(normalized_weights[i], layer_scores[i])])
        + wn.bias

Forward(wn, layer_scores) ==
    LET normalized_weights == Softmax(wn.weights)
        score == SumSeq([i \in 1..Len(layer_scores) |->
                            MulMicro(normalized_weights[i], layer_scores[i])])
                 + wn.bias
    IN  Sigmoid(score)

\* get_weights indexes normalized[0], [1], [2], and [3] when n_layers > 3:
\* IndexError when the weight vector is shorter than that.
GetWeightsRaises(wn) ==
    \/ Len(wn.weights) < 3
    \/ wn.n_layers > 3 /\ Len(wn.weights) < 4

GetWeights(wn) ==
    LET normalized == Softmax(wn.weights)
    IN  [L1_physical |-> normalized[1],
         L2_statistical |-> normalized[2],
         L3_reputation |-> normalized[3],
         L4_social |-> IF wn.n_layers > 3 THEN normalized[4] ELSE 0]

\* A model file on disk: absent, unreadable, or the flat record save() writes.
NoFile == [st |-> "absent"]

CorruptFile == [st |-> "corrupt"]

ModelFile(n, w, b) == [st |-> "json", n_layers |-> n, weights |-> w, bias |-> b]

\* load: cls(n_layers = data['n_layers']), then weights and bias taken from
\* the file as they are; no comparison of the two lengths, or with 4.
LoadRaises(file) == file.st # "json"

Load(file) ==
    [n_layers |-> file.n_layers, weights |-> file.weights, bias |-> file.bias]

\* The k decimal digits of v, the most significant first.
RECURSIVE Digits(_, _)
Digits(v, k) == IF k = 0 THEN << >> ELSE Append(Digits(v \div 10, k - 1), v % 10)

RECURSIVE StripZeros(_)
StripZeros(d) ==
    IF Len(d) > 1 /\ d[Len(d)] = 0 THEN StripZeros(SubSeq(d, 1, Len(d) - 1)) ELSE d

RECURSIVE FractionValue(_, _)
FractionValue(d, unit) ==
    IF d = << >> THEN 0 ELSE Head(d) * unit + FractionValue(Tail(d), unit \div 10)

\* A number written with three decimals; C30 must tell the two apart.
JsonNumberRounded(x) ==
    [negative |-> x < 0, integer |-> Abs(x) \div Micro,
     fraction |-> StripZeros(Digits((Abs(x) % Micro) \div 1000, 3))]

\* json.dump of a float: its sign, integer digits and the fraction digits
\* that tell it from every other float ('0.25', '-0.2', '0.0').
JsonNumber(x) ==
    [negative |-> x < 0, integer |-> Abs(x) \div Micro,
     fraction |-> StripZeros(Digits(Abs(x) % Micro, 6))]

\* json.load of a number
ParseNumber(text) ==
    (IF text.negative THEN -1 ELSE 1)
    * (text.integer * Micro + FractionValue(text.fraction, Micro \div 10))

\* save: the text of the file written, weights.tolist(), float(bias) and
\* n_layers as a flat record.
Save(wn) ==
    [weights |-> [i \in 1..Len(wn.weights) |-> JsonNumber(wn.weights[i])],
     bias |-> JsonNumber(wn.bias),
     n_layers |-> wn.n_layers]

\* json.load(f) on a file that save wrote.
JsonLoad(text) ==
    ModelFile(text.n_layers,
              [i \in 1..Len(text.weights) |-> ParseNumber(text.weights[i])],
              ParseNumber(text.bias))

(***************************************************************************)
(* FeatureExtractor (src/src/preprocessing/feature_extractor.py)           *)
(***************************************************************************)
None == [some |-> FALSE, v |-> 0]

Some(x) == [some |-> TRUE, v |-> x]

\* What sampling one raster at a point can come to.
RasterMissing == [st |-> "missing", v |-> 0]

RasterNodata == [st |-> "nodata", v |-> 0]

RasterError == [st |-> "error", v |-> 0]

RasterValue(x) == [st |-> "value", v |-> x]

\* get_value_at_point: 0.0 when the raster file is missing, None on a nodata
\* cell or a read error, else the sampled value.
GetValueAtPoint(raster) ==
    IF raster.st = "missing" THEN Some(0)
    ELSE IF raster.st \in {"nodata", "error"} THEN None
    ELSE Some(raster.v)

\* get_neighborhood_stats: the mean of the DEM window; 0.0 when the DEM is
\* missing, the window is all nodata or the read fails.
GetNeighborhoodMean(terrain) ==
    IF terrain.dem.st = "missing" \/ terrain.nb.st # "value" THEN 0
    ELSE terrain.nb.v

\* extract_all_features
ExtractAllFeatures(terrain) ==
    LET elevation == GetValueAtPoint(terrain.dem)
        hand == GetValueAtPoint(terrain.hand)
        slope == GetValueAtPoint(terrain.slope)
        nb_mean == GetNeighborhoodMean(terrain)
        elev_diff == IF elevation.some THEN elevation.v - nb_mean ELSE 0
    IN  [elevation |-> IF elevation.some THEN elevation.v ELSE 0,
         hand |-> IF hand.some THEN hand.v ELSE 0,
         slope |-> IF slope.some THEN slope.v ELSE 0,
         elevation_neighborhood_mean |-> nb_mean,
         elevation_diff_from_neighbors |-> elev_diff]

(***************************************************************************)
(* PhysicalValidator (src/src/validation/layer1_physical.py)               *)
(* hand, slope and elevation difference in thousandths.                    *)
(***************************************************************************)
MAX_HAND_THRESHOLD_M == 10000

SUSPICIOUS_HAND_THRESHOLD_M == 5000

STEEP_SLOPE_DEG == 15000

MAX_SLOPE_DEG == 30000

LOCAL_HIGH_DIFF_M == 5000

HandScore(hand) ==
    IF hand > MAX_HAND_THRESHOLD_M THEN 100000
    ELSE IF hand > SUSPICIOUS_HAND_THRESHOLD_M THEN 400000
    ELSE IF hand < 1000 THEN Micro
    ELSE Micro - 150 * (hand - 1000)

SlopeScore(slope) ==
    IF slope > MAX_SLOPE_DEG THEN 0
    ELSE IF slope > STEEP_SLOPE_DEG THEN 300000
    ELSE Micro - 46 * slope

ElevScore(elev_diff) ==
    IF elev_diff > LOCAL_HIGH_DIFF_M THEN 200000
    ELSE IF elev_diff < -2000 THEN Micro
    ELSE 800000

\* max(0.0, min(1.0, layer1_score))
ClipUnit(x) == Max(0, Min(Micro, x))

\* The aggregation with the weights of slope and elevation context
\* exchanged; C16 must tell the two apart.
PhysicalValidateSlopeHeavy(features) ==
    LET hand_score == HandScore(features.hand)
        slope_score == SlopeScore(features.slope)
        elev_score == ElevScore(features.elevation_diff_from_neighbors)
        layer1_score == ClipUnit((4 * hand_score + 2 * elev_score
                                  + 4 * slope_score) \div 10)
    IN  [layer1_score |-> Round3(layer1_score),
         hand_score |-> Round3(hand_score),
         slope_score |-> Round3(slope_score),
         elevation_score |-> Round3(elev_score)]

PhysicalValidate(features) ==
    LET hand_score == HandScore(features.hand)
        slope_score == SlopeScore(features.slope)
        elev_score == ElevScore(features.elevation_diff_from_neighbors)
        layer1_score == ClipUnit((4 * hand_score + 4 * elev_score
                                  + 2 * slope_score) \div 10)
    IN  [layer1_score |-> Round3(layer1_score),
         hand_score |-> Round3(hand_score),
         slope_score |-> Round3(slope_score),
         elevation_score |-> Round3(elev_score)]

(***************************************************************************)
(* StatisticalValidator (src/src/validation/layer2_statistical.py)         *)
(* reports: a DataFrame, here a sequence of rows [lat, lon, depth];        *)
(* depth in hundredths of a metre, rainfall in thousandths of a mm.        *)
(***************************************************************************)
\* sqrt((reports.lat - lat)^2 + (reports.lon - lon)^2) < radius, radius in
\* millionths of a degree, compared on the squares.
WithinDegrees(row, lat, lon, radius) ==
    LET dlat == Abs(row.lat - lat)
        dlon == Abs(row.lon - lon)
    IN  /\ dlat < radius
        /\ dlon < radius
        /\ dlat * dlat + dlon * dlon < radius * radius

Nearby(reports, lat, lon, radius) ==
    {i \in 1..Len(reports) : WithinDegrees(reports[i], lat, lon, radius)}

\* _check_spatial_clustering
CheckSpatialClustering(lat, lon, reports) ==
    IF Len(reports) = 0 THEN 500000
    ELSE LET count == Cardinality(Nearby(reports, lat, lon, 2000))
         IN  IF count >= 5 THEN Micro
             ELSE IF count >= 3 THEN 800000
             ELSE IF count >= 1 THEN 600000
             ELSE 400000

\* _check_temporal_consistency
CheckTemporalConsistency(rainfall_mm) ==
    IF rainfall_mm > 100000 THEN Micro
    ELSE IF rainfall_mm > 50000 THEN 800000
    ELSE IF rainfall_mm > 10000 THEN 600000
    ELSE IF rainfall_mm > 0 THEN 400000
    ELSE 200000

RECURSIVE SumOver(_, _)
SumOver(I, f) ==
    IF I = {} THEN 0
    ELSE LET i == CHOOSE x \in I : TRUE IN f[i] + SumOver(I \ {i}, f)

\* _check_outlier.  With n nearby depths of sum S and sum of squares Q:
\* depth - mean = D / n for D = n * depth - S, and the sample variance
\* (pandas std, ddof = 1) is V / (n * (n - 1)) for V = n * Q - S^2, so
\* z < k  iff  D^2 * (n - 1) < k^2 * n * V.
CheckOutlier(lat, lon, depth, reports) ==
    IF Len(reports) = 0 THEN 500000
    ELSE LET nearby == Nearby(reports, lat, lon, 5000)
             n == Cardinality(nearby)
             S == SumOver(nearby, [k \in 1..Len(reports) |-> reports[k].depth])
             Q == SumOver(nearby, [k \in 1..Len(reports) |->
                                      reports[k].depth * reports[k].depth])
             D == n * depth - S
             V == n * Q - S * S
         IN  IF n < 3 THEN 500000
             ELSE IF V = 0 THEN (IF Abs(D) < 50 * n THEN Micro ELSE 200000)
             ELSE IF D * D * (n - 1) < n * V THEN Micro
             ELSE IF D * D * (n - 1) < 4 * n * V THEN 700000
             ELSE 200000

\* An aggregation that weighs the three checks 0.4, 0.3 and 0.3; C28 must
\* tell the two apart.
StatisticalValidateOutlierHeavy(lat, lon, depth, recent_reports, rainfall_24h) ==
    LET spatial_score == CheckSpatialClustering(lat, lon, recent_reports)
        temporal_score == CheckTemporalConsistency(rainfall_24h)
        outlier_score == CheckOutlier(lat, lon, depth, recent_reports)
        layer2_score == (4 * spatial_score + 3 * temporal_score
                         + 3 * outlier_score) \div 10
    IN  [layer2_score |-> Round3(layer2_score),
         spatial_score |-> Round3(spatial_score),
         temporal_score |-> Round3(temporal_score),
         outlier_score |-> Round3(outlier_score)]

StatisticalValidate(lat, lon, depth, recent_reports, rainfall_24h) ==
    LET spatial_score == CheckSpatialClustering(lat, lon, recent_reports)
        temporal_score == CheckTemporalConsistency(rainfall_24h)
        outlier_score == CheckOutlier(lat, lon, depth, recent_reports)
        layer2_score == (5 * spatial_score + 3 * temporal_score
                         + 2 * outlier_score) \div 10
    IN  [layer2_score |-> Round3(layer2_score),
         spatial_score |-> Round3(spatial_score),
         temporal_score |-> Round3(temporal_score),
         outlier_score |-> Round3(outlier_score)]

(***************************************************************************)
(* SpatialClusterAnalyzer (src/src/ml/models/dbscan_clustering.py)         *)
(***************************************************************************)
\* spatial_analyzer = SpatialClusterAnalyzer(eps_km=2.0, min_samples=3)
EPS_KM == 2

MIN_SAMPLES == 3

\* eps_degrees = eps_km / 111.0, in millionths
EpsDegrees == (EPS_KM * Micro) \div 111

\* The haversine distance, in millionths of a radian, of two points of one
\* meridian: |dlat| * pi / 180.  Every location of the model lies on one
\* meridian (see Locations), where this is the whole of the formula.
HaversineMicroRad(p, q) == ((Abs(p.latitude - q.latitude) \div 1000) * 17453) \div 1000

\* DBSCAN(eps = eps_degrees, metric = 'haversine') on radians: the eps in
\* degrees is compared with a distance in radians.
EpsNeighbours(reports, i) ==
    {j \in 1..Len(reports) : HaversineMicroRad(reports[i], reports[j]) <= EpsDegrees}

\* A clustering in which two reports make a dense region; C29 must tell the
\* two apart.
CorePointsOfPairs(reports) ==
    {i \in 1..Len(reports) : Cardinality(EpsNeighbours(reports, i)) >= 2}

CorePoints(reports) ==
    {i \in 1..Len(reports) : Cardinality(EpsNeighbours(reports, i)) >= MIN_SAMPLES}

\* The points a cluster grown from the ones in C takes in: the neighbours of
\* its core points, repeatedly.
RECURSIVE Expand(_, _)
Expand(reports, C) ==
    LET C2 == C \cup UNION {EpsNeighbours(reports, c) : c \in C \cap CorePoints(reports)}
    IN  IF C2 = C THEN C ELSE Expand(reports, C2)

\* sklearn's dbscan_inner: the points in index order; an unlabelled core
\* point opens the next cluster, which takes every point reachable from it
\* that no earlier cluster took.
RECURSIVE DbscanInner(_, _, _, _)
DbscanInner(reports, i, labels, label_num) ==
    IF i > Len(reports) THEN labels
    ELSE IF labels[i] # -1 \/ i \notin CorePoints(reports)
         THEN DbscanInner(reports, i + 1, labels, label_num)
    ELSE LET members == {j \in Expand(reports, {i}) : labels[j] = -1}
             labelled == [j \in 1..Len(reports) |->
                             IF j \in members THEN label_num ELSE labels[j]]
         IN  DbscanInner(reports, i + 1, labelled, label_num + 1)

\* fit_predict
FitPredict(reports) ==
    IF Len(reports) < MIN_SAMPLES THEN [j \in 1..Len(reports) |-> -1]
    ELSE DbscanInner(reports, 1, [j \in 1..Len(reports) |-> -1], 0)

\* A row that has no 'report_id' key (r.get('report_id') is None).
NoId == -1

\* The first index whose report_id equals the candidate's, 0 when none.
ReportIndex(report, all_reports) ==
    LET hits == {i \in 1..Len(all_reports) :
                    /\ all_reports[i].report_id # NoId
                    /\ all_reports[i].report_id = report.report_id}
    IN  IF hits = {} THEN 0 ELSE CHOOSE i \in hits : \A j \in hits : i <= j

\* A mapping with no step at five reports; C19 must tell the two apart.
ScoreOfLabelCoarse(labels, label) ==
    LET cluster_size == Cardinality({j \in 1..Len(labels) : labels[j] = label})
    IN  IF label = -1 THEN 200000
        ELSE IF cluster_size >= 10 THEN Micro
        ELSE IF cluster_size >= 3 THEN 700000
        ELSE 500000

ScoreOfLabel(labels, label) ==
    LET cluster_size == Cardinality({j \in 1..Len(labels) : labels[j] = label})
    IN  IF label = -1 THEN 200000
        ELSE IF cluster_size >= 10 THEN Micro
        ELSE IF cluster_size >= 5 THEN 850000
        ELSE IF cluster_size >= 3 THEN 700000
        ELSE 500000

\* get_cluster_score
GetClusterScore(report, all_reports) ==
    IF Len(all_reports) < 2 THEN 500000
    ELSE LET report_idx == ReportIndex(report, all_reports)
         IN  IF report_idx = 0
             THEN LET labels == FitPredict(Append(all_reports, report))
                  IN  ScoreOfLabel(labels, labels[Len(labels)])
             ELSE LET labels == FitPredict(all_reports)
                  IN  ScoreOfLabel(labels, labels[report_idx])

\* analyze_clusters: the number of clusters and of noise points.
AnalyzeClusters(reports) ==
    LET labels == FitPredict(reports)
        used == {labels[j] : j \in 1..Len(reports)}
    IN  [n_clusters |-> Cardinality(used \ {-1}),
         n_noise |-> Cardinality({j \in 1..Len(reports) : labels[j] = -1})]

(***************************************************************************)
(* ReputationSystem (src/src/validation/layer3_reputation.py)              *)
(***************************************************************************)
TRUST_INCREMENT == 100000

TRUST_DECREMENT == 150000

\* get_trust_score: "TODO: Replace with DB call"; returns 0.5 for every user.
GetTrustScore(user_id) == 500000

\* validate
ReputationValidate(user_id) == [layer3_score |-> GetTrustScore(user_id)]

\* The update without its clamp; C17 must tell the two apart.
UpdateTrustScoreUnclamped(report_outcome, current_score) ==
    IF report_outcome = "validated" THEN current_score + TRUST_INCREMENT
    ELSE IF report_outcome = "flagged" THEN current_score - TRUST_DECREMENT
    ELSE current_score

\* update_trust_score
UpdateTrustScore(report_outcome, current_score) ==
    LET new_score == IF report_outcome = "validated" THEN current_score + TRUST_INCREMENT
                     ELSE IF report_outcome = "flagged" THEN current_score - TRUST_DECREMENT
                     ELSE current_score
    IN  Max(0, Min(Micro, new_score))

(***************************************************************************)
(* The collaborators: what each answers on one call                        *)
(***************************************************************************)
\* WeatherService.get_current_weather (weather_service.py): None when the
\* request fails, else a dict with rainfall_mm.
WeatherFail == [st |-> "fail", rainfall_mm |-> 0]

WeatherOk(mm) == [st |-> "ok", rainfall_mm |-> mm]

GetCurrentWeather(weather) == IF weather.st = "ok" THEN Some(weather.rainfall_mm) ELSE None

\* GeospatialService.check_ground_truth (geospatial_service.py): the mock
\* Bhuvan polygon 85.80..85.95 E, 20.45..20.55 N; contains() is strict.  The
\* zone list is empty when loading it failed.
CheckGroundTruth(lat, lon, zones_loaded) ==
    IF /\ zones_loaded
       /\ 85800000 < lon /\ lon < 85950000
       /\ 20450000 < lat /\ lat < 20550000
    THEN [in_flood_zone |-> TRUE, source |-> "Bhuvan-2024", risk_level |-> "High"]
    ELSE [in_flood_zone |-> FALSE, source |-> "None", risk_level |-> "None"]

\* SocialMediaService.get_social_context (social_service.py): the mock answer
\* when the key is the placeholder or the request fails, else
\* min(len(articles) * 0.1, 1.0) and up to three headlines.
SocialFail == [st |-> "fail", articles |-> 0]

SocialOk(n) == [st |-> "ok", articles |-> n]

GetMockNews == [buzz_score |-> 0, recent_headlines |-> 0, source |-> "None"]

GetSocialContext(social) ==
    IF social.st # "ok" THEN GetMockNews
    ELSE [buzz_score |-> Min(social.articles * 100000, Micro),
          recent_headlines |-> Min(social.articles, 3),
          source |-> "NewsAPI"]

\* An image: its length in bytes and what the classifier's predict() finds in
\* it.  NoImage stands for image_bytes = None (or b'').
NoImage == [len |-> 0, is_flood |-> FALSE, water_ratio |-> 0]

Image(n, flood, water) == [len |-> n, is_flood |-> flood, water_ratio |-> water]

\* A check that rejects the sizes at the two thresholds as well; C27 must
\* tell the two apart.
ValidateImageStrict(image) ==
    IF image.len <= 1000 \/ image.len >= 10000000
    THEN [valid |-> FALSE, score |-> 0, is_flood_detected |-> FALSE, water_coverage |-> 0]
    ELSE LET score == 500000 + (IF image.is_flood THEN 300000 ELSE 0)
                      + (IF image.water_ratio > 200000 THEN 200000 ELSE 0)
         IN  [valid |-> TRUE, score |-> Min(score, Micro),
              is_flood_detected |-> image.is_flood,
              water_coverage |-> image.water_ratio]

\* FloodImageClassifier.validate_image (image_classifier.py)
ValidateImage(image) ==
    IF image.len < 1000 \/ image.len > 10000000
    THEN [valid |-> FALSE, score |-> 0, is_flood_detected |-> FALSE, water_coverage |-> 0]
    ELSE LET score == 500000 + (IF image.is_flood THEN 300000 ELSE 0)
                      + (IF image.water_ratio > 200000 THEN 200000 ELSE 0)
         IN  [valid |-> TRUE, score |-> Min(score, Micro),
              is_flood_detected |-> image.is_flood,
              water_coverage |-> image.water_ratio]

(***************************************************************************)
(* FloodReportValidator.validate_report (src/src/validation/validator.py)  *)
(*                                                                         *)
(* A call c carries the arguments (report_id, user_id, lat, lon, depth,    *)
(* recent_reports, rainfall_24h, image) and what the collaborators answer  *)
(* during it (terrain, weather, social).  Timestamps take no part in any   *)
(* score and are left out.                                                 *)
(***************************************************************************)
VALIDATION_THRESHOLD == 700000

CACHE_LIMIT == 500

\* recent_reports.to_dict('records'), each row given 'latitude' and
\* 'longitude' from its 'lat' and 'lon'; the rows have no 'report_id'.
ToRecords(df) ==
    [i \in 1..Len(df) |->
        [report_id |-> NoId, latitude |-> df[i].lat,
         longitude |-> df[i].lon, depth |-> df[i].depth]]

CurrentReport(c) ==
    [report_id |-> c.report_id, latitude |-> c.lat,
     longitude |-> c.lon, depth |-> c.depth]

\* A fetch whose failure is answered with 50 mm instead of 0.0; C6 must tell
\* the two apart.
Rainfall24hAssumesRain(c) ==
    IF c.rainfall_24h.some THEN c.rainfall_24h.v
    ELSE LET weather == GetCurrentWeather(c.weather)
         IN  IF weather.some THEN weather.v ELSE 50000

\* Step 0: rainfall_24h as given, else fetched; 0.0 when the fetch fails.
Rainfall24h(c) ==
    IF c.rainfall_24h.some THEN c.rainfall_24h.v
    ELSE LET weather == GetCurrentWeather(c.weather)
         IN  IF weather.some THEN weather.v ELSE 0

\* The boost without its cap at 1.0; C2 must tell the two apart.
ZoneBoostUncapped(l1_score, ground_truth) ==
    IF ground_truth.in_flood_zone THEN l1_score + 200000 ELSE l1_score

\* Layer 1 with the boost from official ground truth.
ZoneBoost(l1_score, ground_truth) ==
    IF ground_truth.in_flood_zone THEN Min(l1_score + 200000, Micro) ELSE l1_score

\* Layer 2: the reports DBSCAN runs on.
ReportsList(c, cache) ==
    IF c.recent_reports.some /\ Len(c.recent_reports.v) > 0
    THEN ToRecords(c.recent_reports.v)
    ELSE cache

\* Layer 5: neutral unless an image is given and accepted.
VisualLayer(image) ==
    LET cv_result == ValidateImage(image)
    IN  IF image.len > 0 /\ cv_result.valid
        THEN [layer5_score |-> Round3(cv_result.score),
              is_flood |-> cv_result.is_flood_detected,
              water_coverage |-> cv_result.water_coverage,
              applied |-> TRUE]
        ELSE [layer5_score |-> 500000, is_flood |-> FALSE,
              water_coverage |-> 0, applied |-> FALSE]

\* A boost that an accepted image with water in it earns too; C26 must tell
\* the two apart.
PhotoBoostOnWater(final_score, l5_result) ==
    IF l5_result.applied /\ (l5_result.is_flood \/ l5_result.water_coverage > 200000)
    THEN Min(final_score + 100000, Micro)
    ELSE final_score

\* "Apply photo boost if strong positive signal"
PhotoBoost(final_score, l5_result) ==
    IF l5_result.applied /\ l5_result.is_flood
    THEN Min(final_score + 100000, Micro)
    ELSE final_score

Decide(final_score) ==
    IF final_score >= VALIDATION_THRESHOLD THEN "validated" ELSE "flagged"

\* Layer 2: DBSCAN and the rule-based check, 0.6 to 0.4.
CombineL2(dbscan_score, l2_result_rule) ==
    (6 * dbscan_score + 4 * l2_result_rule.layer2_score) \div 10

\* What the layers have computed when the combiner is called; scores is
\* layer_scores.
Gathered(features, rainfall_24h, l1_result, ground_truth, reports_list, dbscan_score, l2_result_rule, l3_result, social_ctx) ==
    [features |-> features, rainfall_24h |-> rainfall_24h,
     l1_result |-> l1_result, ground_truth |-> ground_truth,
     l1_score |-> ZoneBoost(l1_result.layer1_score, ground_truth),
     reports_list |-> reports_list,
     dbscan_score |-> dbscan_score, l2_result_rule |-> l2_result_rule,
     l2_score |-> CombineL2(dbscan_score, l2_result_rule),
     l3_result |-> l3_result,
     social_ctx |-> social_ctx, l4_score |-> social_ctx.buzz_score,
     scores |-> <<ZoneBoost(l1_result.layer1_score, ground_truth),
                  CombineL2(dbscan_score, l2_result_rule),
                  l3_result.layer3_score, social_ctx.buzz_score>>]

\* Steps 0 to 4 of validate_report, l3_result being what layer3.validate
\* returns.
LayerScoresGiven(c, cache, zones_loaded, l3_result) ==
    Gathered(ExtractAllFeatures(c.terrain),
             Rainfall24h(c),
             PhysicalValidate(ExtractAllFeatures(c.terrain)),
             CheckGroundTruth(c.lat, c.lon, zones_loaded),
             ReportsList(c, cache),
             GetClusterScore(CurrentReport(c), ReportsList(c, cache)),
             StatisticalValidate(c.lat, c.lon, c.depth,
                 IF c.recent_reports.some THEN c.recent_reports.v ELSE << >>,
                 Rainfall24h(c)),
             l3_result,
             GetSocialContext(c.social))

LayerScores(c, cache, zones_loaded) ==
    LayerScoresGiven(c, cache, zones_loaded, ReputationValidate(c.user_id))

\* The returned dict.
ResultDict(c, s, l5_result, final_score, learned_weights) ==
    [report_id |-> c.report_id,
     status |-> Decide(final_score),
     final_score |-> Round3(final_score),
     learned_weights |-> learned_weights,
     details |->
        [physical |-> [layer1_score |-> Round3(s.l1_score),
                       hand_score |-> s.l1_result.hand_score,
                       slope_score |-> s.l1_result.slope_score,
                       elevation_score |-> s.l1_result.elevation_score,
                       zone_boost |-> s.ground_truth.in_flood_zone],
         statistical |-> [layer2_score |-> Round3(s.l2_score),
                          dbscan_score |-> Round3(s.dbscan_score),
                          rule_score |-> s.l2_result_rule.layer2_score,
                          cluster_analysis |->
                              IF Len(s.reports_list) > 0
                              THEN AnalyzeClusters(s.reports_list)
                              ELSE [n_clusters |-> 0, n_noise |-> 0]],
         reputation |-> s.l3_result,
         social |-> [layer4_score |-> Round3(s.l4_score),
                     headlines |-> s.social_ctx.recent_headlines,
                     source |-> s.social_ctx.source],
         visual |-> l5_result,
         features |-> s.features,
         rainfall_24h |-> s.rainfall_24h,
         ground_truth |-> s.ground_truth]]

NoResult == [status |-> "none"]

\* Step 6 on: forward raises, or the score is boosted, decided on and
\* returned.  final_score is the unrounded local.
Combine(c, s, l5_result, wn) ==
    IF ForwardRaises(wn, s.scores)
    THEN [raises |-> TRUE, layer_scores |-> s.scores, final_score |-> 0,
          result |-> NoResult]
    ELSE [raises |-> FALSE, layer_scores |-> s.scores,
          final_score |-> PhotoBoost(Forward(wn, s.scores), l5_result),
          result |-> ResultDict(c, s, l5_result,
                                PhotoBoost(Forward(wn, s.scores), l5_result),
                                GetWeights(wn))]

\* validate_report, without the cache update.
ValidateOutcome(c, cache, zones_loaded, wn) ==
    Combine(c, LayerScores(c, cache, zones_loaded), VisualLayer(c.image), wn)

\* An eviction that drops the newest entries; C10 must tell the two apart.
EvictNewest(cache) ==
    IF Len(cache) > CACHE_LIMIT THEN SubSeq(cache, 1, CACHE_LIMIT) ELSE cache

\* "Update cache for future DBSCAN context": append, keep the last 500.
Evict(cache) ==
    IF Len(cache) > CACHE_LIMIT
    THEN SubSeq(cache, Len(cache) - CACHE_LIMIT + 1, Len(cache))
    ELSE cache

UpdateCache(cache, current_report) == Evict(Append(cache, current_report))

(***************************************************************************)
(* The inputs explored                                                     *)
(***************************************************************************)
\* How many entry-point calls one behaviour makes.
MaxCalls == 2

\* Every location lies on the meridian 85.883 E.
Lon0 == 85883 * 1000

LatCuttack == 20 * Micro + 462500

LatNear == 20 * Micro + 463500

LatFiftyKm == 20 * Micro + 912500

LatFar == 21 * Micro + 500000

LatInvalid == 95 * Micro

LonInvalid == 181 * Micro

Row(lat, depth) == [lat |-> lat, lon |-> Lon0, depth |-> depth]

\* recent_reports: None, an empty DataFrame, two rows near Cuttack, five rows
\* near Cuttack of one depth.
CtxNone == [some |-> FALSE, v |-> << >>]

CtxEmpty == Some(<< >>)

CtxTwo == Some(<<Row(LatNear, 100), Row(LatCuttack, 150)>>)

CtxFive == Some(<<Row(LatNear, 100), Row(LatCuttack, 100), Row(LatNear, 100),
                  Row(LatCuttack, 100), Row(LatNear, 100)>>)

Terrain(dem, hand, slope, nb) == [dem |-> dem, hand |-> hand, slope |-> slope, nb |-> nb]

\* tests/test_validation.py MOCK_FEATURES_FLOODABLE and MOCK_FEATURES_IMPOSSIBLE
TerrainFloodable ==
    Terrain(RasterValue(20000), RasterValue(2000), RasterValue(1500), RasterValue(20500))

TerrainImpossible ==
    Terrain(RasterValue(62000), RasterValue(15000), RasterValue(35000), RasterValue(50000))

TerrainRiver ==
    Terrain(RasterValue(10000), RasterValue(500), RasterValue(0), RasterValue(13000))

\* Rasters that hold 0 at the point.
TerrainZero ==
    Terrain(RasterValue(0), RasterValue(0), RasterValue(0), RasterValue(0))

\* The rasters are not on disk.
TerrainMissing == Terrain(RasterMissing, RasterMissing, RasterMissing, RasterMissing)

\* Nodata cells and a failing read.
TerrainNodata == Terrain(RasterNodata, RasterNodata, RasterError, RasterValue(20000))

Terrains ==
    {TerrainFloodable, TerrainImpossible, TerrainRiver, TerrainZero,
     TerrainMissing, TerrainNodata}

TerrainUnavailable(terrain) ==
    \E r \in {terrain.dem, terrain.hand, terrain.slope} : r.st # "value"

Weathers == {WeatherFail, WeatherOk(0), WeatherOk(60000), WeatherOk(120000)}

Socials == {SocialFail, SocialOk(0), SocialOk(3), SocialOk(10)}

Images ==
    {NoImage, Image(500, TRUE, 300000), Image(5000, TRUE, 300000),
     Image(5000, FALSE, 300000)}

BaseCall ==
    [report_id |-> 1, user_id |-> 1, lat |-> LatCuttack, lon |-> Lon0, depth |-> 100,
     recent_reports |-> CtxNone, rainfall_24h |-> None, image |-> NoImage,
     terrain |-> TerrainFloodable, weather |-> WeatherOk(60000), social |-> SocialOk(3)]

\* The direct calls: the base call with one argument or one collaborator's
\* answer varied, every combination of unavailable collaborators, and the
\* calls of the boundary cases.
DirectCalls ==
    {[BaseCall EXCEPT !.terrain = t] : t \in Terrains}
    \cup {[BaseCall EXCEPT !.weather = w] : w \in Weathers}
    \cup {[BaseCall EXCEPT !.social = x] : x \in Socials}
    \cup {[BaseCall EXCEPT !.image = i] : i \in Images}
    \cup {[BaseCall EXCEPT !.recent_reports = r] : r \in {CtxEmpty, CtxTwo, CtxFive}}
    \cup {[BaseCall EXCEPT !.rainfall_24h = r] : r \in {Some(0), Some(50000)}}
    \cup {[BaseCall EXCEPT !.lat = l, !.report_id = 2] : l \in {LatNear, LatFiftyKm, LatFar, LatInvalid}}
    \cup {[BaseCall EXCEPT !.depth = d, !.report_id = 0] : d \in {150, -100}}
    \cup {[BaseCall EXCEPT !.user_id = u] : u \in {2, 9}}
    \cup {[BaseCall EXCEPT !.terrain = t, !.weather = w, !.social = x] :
             t \in {TerrainZero, TerrainMissing}, w \in {WeatherFail, WeatherOk(0)},
             x \in {SocialFail, SocialOk(0)}}
    \cup {[BaseCall EXCEPT !.terrain = TerrainRiver, !.social = SocialOk(10),
                           !.recent_reports = CtxFive, !.image = i] :
             i \in {NoImage, Image(5000, TRUE, 300000)}}

\* The weight-model file found at start-up.
TrainedWeights == <<600000, 500000, 100000, -200000>>

ModelFiles ==
    {NoFile, CorruptFile,
     ModelFile(4, TrainedWeights, 300000),
     ModelFile(4, TrainedWeights, 3000000),
     ModelFile(3, <<400000, 400000, 200000>>, 0),
     ModelFile(5, <<200000, 200000, 200000, 200000, 200000>>, 0),
     ModelFile(2, <<500000, 500000>>, 0),
     ModelFile(3, TrainedWeights, 0)}

\* The users table as the service finds it: the seeded guest (id 1) and a
\* user whose row holds trust 0.8; id 9 is in nobody's table.
UserStore == (1 :> 500000) @@ (2 :> 800000)

\* POST /reports bodies: a FloodReportCreate and what the collaborators
\* answer while it is handled.
Request(user_id, lat, lon, depth) ==
    [report_id |-> 0, user_id |-> user_id, lat |-> lat, lon |-> lon, depth |-> depth,
     recent_reports |-> CtxNone, rainfall_24h |-> None, image |-> NoImage,
     terrain |-> TerrainFloodable, weather |-> WeatherOk(60000), social |-> SocialOk(3)]

ReportRequests ==
    {Request(u, LatCuttack, Lon0, 100) : u \in {1, 2, 9}}
    \cup {Request(1, l, Lon0, 100) : l \in {LatNear, LatFar, LatInvalid}}
    \cup {Request(1, LatCuttack, LonInvalid, 100)}
    \cup {Request(1, LatCuttack, Lon0, d) : d \in {150, -100, 2500}}
    \cup {[Request(1, LatCuttack, Lon0, 100) EXCEPT !.weather = w, !.terrain = t] :
             w \in {WeatherFail, WeatherOk(0)}, t \in {TerrainMissing, TerrainZero}}

\* POST /reports/from-image uploads: the content type, the GPS tag read from
\* the EXIF data (None when there is none), the picture and depth_meters.
Upload(user_id, is_image, geotag, image, depth) ==
    [user_id |-> user_id, is_image |-> is_image, geotag |-> geotag, image |-> image,
     depth_meters |-> depth, terrain |-> TerrainFloodable,
     weather |-> WeatherOk(60000), social |-> SocialOk(3)]

Geotag(lat, lon) == Some([latitude |-> lat, longitude |-> lon])

\* extract_geotag found no GPS data: success is False.
NoGeotag == [some |-> FALSE, v |-> [latitude |-> 0, longitude |-> 0]]

FloodPhoto == Image(5000, TRUE, 300000)

ImageUploads ==
    {Upload(u, TRUE, Geotag(LatCuttack, Lon0), FloodPhoto, 100) : u \in {1, 2, 9}}
    \cup {Upload(1, FALSE, Geotag(LatCuttack, Lon0), FloodPhoto, 100)}
    \cup {Upload(1, TRUE, g, FloodPhoto, 100) :
             g \in {NoGeotag, Geotag(LatNear, Lon0), Geotag(LatInvalid, Lon0),
                    Geotag(LatCuttack, LonInvalid)}}
    \cup {Upload(1, TRUE, Geotag(LatCuttack, Lon0), i, d) :
             i \in {Image(500, TRUE, 300000), Image(5000, FALSE, 300000)},
             d \in {100, -100}}

(***************************************************************************)
(* The service: one validator (validator_service), the users and reports   *)
(* tables, and the outcome of the last call                                *)
(***************************************************************************)
VARIABLES
    phase,                  \* "start", "ready", or "crashed" in the constructor
    model_file,             \* the file at WEIGHT_MODEL_PATH
    zones_loaded,           \* whether GeospatialService loaded its polygons
    weight_network,         \* validator.weight_network
    recent_reports_cache,   \* validator.recent_reports_cache
    users,                  \* users table: user_id -> trust_score
    reports_db,             \* flood_reports table, newest first
    last,                   \* the last call: entry point, arguments, outcome
    history,                \* the current_report of every completed validation
    ncalls,
    threads,                \* the handler threads of the pool: position and locals
    heap,                   \* the list objects recent_reports_cache has been bound to
    cache_ref,              \* the object validator.recent_reports_cache is bound to
    log,                    \* every validate_report call made, with what it read
    probe,                  \* the last call of a unit on its own: arguments, return
    users_db,               \* demo.py users_db: user_id -> record
    demo_reports_db,        \* demo.py reports_db: report_id -> record
    user_counter,           \* demo.py user_counter
    report_counter          \* demo.py report_counter

serviceVars ==
    <<phase, model_file, zones_loaded, weight_network, recent_reports_cache,
      users, reports_db, last, history, ncalls>>

poolVars == <<threads, heap, cache_ref>>

demoVars == <<users_db, demo_reports_db, user_counter, report_counter>>

vars == <<serviceVars, poolVars, demoVars, log, probe>>

NoProbe == [unit |-> "none"]

\* Nothing runs beside the calls of the specification at hand: no pool
\* thread, no demo application, no unit called on its own.
Alone ==
    /\ threads = << >>
    /\ heap = << >>
    /\ cache_ref = 0
    /\ log = << >>
    /\ probe = NoProbe
    /\ users_db = << >>
    /\ demo_reports_db = << >>
    /\ user_counter = 1
    /\ report_counter = 1

StaysAlone == UNCHANGED <<poolVars, demoVars, log, probe>>

NoCall ==
    [entry |-> "none", outcome |-> "none", call |-> BaseCall, layer_scores |-> << >>,
     final_score |-> 0, result |-> NoResult]

Init ==
    /\ phase = "start"
    /\ model_file \in ModelFiles
    /\ zones_loaded \in BOOLEAN
    /\ weight_network = NewWeightNetwork(4)
    /\ recent_reports_cache = << >>
    /\ users = UserStore
    /\ reports_db = << >>
    /\ last = NoCall
    /\ history = << >>
    /\ ncalls = 0
    /\ Alone

\* FloodReportValidator.__init__: the weight network is loaded, or the
\* default one made; the closing print calls get_weights().
LoadWeightNetwork(file) ==
    IF file.st # "absent" /\ ~LoadRaises(file) THEN Load(file) ELSE NewWeightNetwork(4)

Construct ==
    /\ phase = "start"
    /\ weight_network' = LoadWeightNetwork(model_file)
    /\ phase' = IF GetWeightsRaises(LoadWeightNetwork(model_file)) THEN "crashed" ELSE "ready"
    /\ UNCHANGED <<model_file, zones_loaded, recent_reports_cache, users,
                   reports_db, last, history, ncalls>>
    /\ StaysAlone

\* schemas.FloodReportBase: latitude ge=-90 le=90, longitude ge=-180 le=180,
\* depth_meters ge=0 le=20.
SchemaAccepts(req) ==
    /\ -90 * Micro <= req.lat /\ req.lat <= 90 * Micro
    /\ -180 * Micro <= req.lon /\ req.lon <= 180 * Micro
    /\ 0 <= req.depth /\ req.depth <= 2000

RECENT_LIMIT == 100

\* The last 100 rows of flood_reports, newest first, as a DataFrame; an
\* empty DataFrame when the table is empty.  Rows carry no timestamp here:
\* the order of insertion stands for order_by(timestamp.desc()).
RecentDf(db) ==
    Some([i \in 1..Min(Len(db), RECENT_LIMIT) |->
             [lat |-> db[i].latitude, lon |-> db[i].longitude, depth |-> db[i].depth_meters]])

DbReport(user_id, lat, lon, depth, validation_result) ==
    [user_id |-> user_id, latitude |-> lat, longitude |-> lon, depth_meters |-> depth,
     validation_status |-> validation_result.status,
     final_score |-> validation_result.final_score]

Rejected(entry, code, c) ==
    /\ last' = [entry |-> entry, outcome |-> code, call |-> c, layer_scores |-> << >>,
                final_score |-> 0, result |-> NoResult]
    /\ UNCHANGED <<recent_reports_cache, history, reports_db>>

\* One validate_report call on the validator: a raise in forward leaves the
\* validator as it was, a return has appended the report to the cache.  The
\* record of the call keeps layer_scores and the unrounded final_score, the
\* locals of those names.  save: the handler inserts the row it builds from
\* the result into flood_reports.
Completed(entry, c, out, save) ==
    /\ last' = [entry |-> entry, outcome |-> IF out.raises THEN "raised" ELSE "result",
                call |-> c, layer_scores |-> out.layer_scores,
                final_score |-> out.final_score, result |-> out.result]
    /\ recent_reports_cache' =
          IF out.raises THEN recent_reports_cache
          ELSE UpdateCache(recent_reports_cache, CurrentReport(c))
    /\ history' = IF out.raises THEN history ELSE Append(history, CurrentReport(c))
    /\ reports_db' =
          IF out.raises \/ ~save THEN reports_db
          ELSE <<DbReport(c.user_id, c.lat, c.lon, c.depth, out.result)>> \o reports_db

\* A validator that scores against every report it has ever validated, not
\* the cache it holds; C13 must tell the two apart.
ValidateOnEveryReport(entry, c, save) ==
    Completed(entry, c,
              ValidateOutcome(c, history, zones_loaded, weight_network),
              save)

Validate(entry, c, save) ==
    Completed(entry, c,
              ValidateOutcome(c, recent_reports_cache, zones_loaded, weight_network),
              save)

ValidateReport ==
    /\ phase = "ready"
    /\ ncalls < MaxCalls
    /\ \E c \in DirectCalls : Validate("validate_report", c, FALSE)
    /\ ncalls' = ncalls + 1
    /\ UNCHANGED <<phase, model_file, zones_loaded, weight_network, users>>
    /\ StaysAlone

\* POST /reports (submit_report)
SubmitReport ==
    /\ phase = "ready"
    /\ ncalls < MaxCalls
    /\ \E req \in ReportRequests :
          LET c == [req EXCEPT !.recent_reports = RecentDf(reports_db)]
          IN  IF ~SchemaAccepts(req) THEN Rejected("POST /reports", "422", req)
              ELSE IF req.user_id \notin DOMAIN users
                   THEN Rejected("POST /reports", "404", req)
                   ELSE Validate("POST /reports", c, TRUE)
    /\ ncalls' = ncalls + 1
    /\ UNCHANGED <<phase, model_file, zones_loaded, weight_network, users>>
    /\ StaysAlone

\* The validate_report call submit_report_from_image makes for an upload.
ImageCall(up, db) ==
    [report_id |-> 0, user_id |-> up.user_id,
     lat |-> up.geotag.v.latitude, lon |-> up.geotag.v.longitude,
     depth |-> up.depth_meters, recent_reports |-> RecentDf(db),
     rainfall_24h |-> None, image |-> up.image, terrain |-> up.terrain,
     weather |-> up.weather, social |-> up.social]

\* POST /reports/from-image (submit_report_from_image)
SubmitReportFromImage ==
    /\ phase = "ready"
    /\ ncalls < MaxCalls
    /\ \E up \in ImageUploads :
          LET c == ImageCall(up, reports_db)
          IN  IF ~up.is_image THEN Rejected("POST /reports/from-image", "400", c)
              ELSE IF up.user_id \notin DOMAIN users
                   THEN Rejected("POST /reports/from-image", "404", c)
                   ELSE IF ~up.geotag.some
                        THEN Rejected("POST /reports/from-image", "400", c)
                        ELSE Validate("POST /reports/from-image", c, TRUE)
    /\ ncalls' = ncalls + 1
    /\ UNCHANGED <<phase, model_file, zones_loaded, weight_network, users>>
    /\ StaysAlone

Next ==
    \/ Construct
    \/ ValidateReport
    \/ SubmitReport
    \/ SubmitReportFromImage

Spec == Init /\ [][Next]_vars

(***************************************************************************)
(* The claims                                                              *)
(***************************************************************************)
Returned == last.outcome = "result"

\* C1: in every result validate_report returns, status is 'validated'
\* exactly when the final_score of that same result is >= 0.7, and
\* 'flagged' otherwise.
C1_StatusIffReportedScore ==
    Returned =>
        /\ last.result.status \in {"validated", "flagged"}
        /\ last.result.status = "validated"
              <=> last.result.final_score >= VALIDATION_THRESHOLD

\* What the code keeps instead: the status follows the unrounded score.
C1_StatusFollowsUnroundedScore ==
    Returned =>
        (last.result.status = "validated" <=> last.final_score >= VALIDATION_THRESHOLD)

\* A returned result that reads final_score 0.7 and status 'flagged'.
C1_FlaggedAtThreshold ==
    /\ Returned
    /\ last.result.final_score = VALIDATION_THRESHOLD
    /\ last.result.status = "flagged"

WellFormed(c) ==
    /\ -90 * Micro <= c.lat /\ c.lat <= 90 * Micro
    /\ -180 * Micro <= c.lon /\ c.lon <= 180 * Micro
    /\ c.depth >= 0
    /\ ExtractAllFeatures(c.terrain).hand >= 0
    /\ ExtractAllFeatures(c.terrain).slope >= 0

InUnit(x) == 0 <= x /\ x <= Micro

\* C2: for a well-formed report, in every state the validator reaches, each
\* layer score (physical with its zone boost, statistical, reputation,
\* social, visual) and the final score with its photo boost lie in [0,1],
\* both as computed and as reported.
C2_ScoresInUnitInterval ==
    (Returned /\ WellFormed(last.call)) =>
        /\ \A i \in 1..Len(last.layer_scores) : InUnit(last.layer_scores[i])
        /\ InUnit(last.final_score)
        /\ InUnit(last.result.final_score)
        /\ InUnit(last.result.details.physical.layer1_score)
        /\ InUnit(last.result.details.statistical.layer2_score)
        /\ InUnit(last.result.details.reputation.layer3_score)
        /\ InUnit(last.result.details.social.layer4_score)
        /\ InUnit(last.result.details.visual.layer5_score)

\* A well-formed report in the flood zone whose physical score the boost
\* takes to the cap, and whose photo boost takes the final score to the cap.
C2_BoostsAtTheCap ==
    /\ Returned /\ WellFormed(last.call)
    /\ last.result.details.physical.zone_boost
    /\ last.layer_scores[1] = Micro
    /\ last.result.details.visual.applied /\ last.result.details.visual.is_flood
    /\ last.final_score = Micro

KnownUser(c) == c.user_id \in DOMAIN users

\* C3: every completed validate_report call applies the trust update once
\* for the submitting user, with the decided status as the outcome: the
\* stored trust moves by +0.1 (validated) or -0.15 (flagged), clamped.
C3_TrustUpdatedOncePerValidation ==
    [][(ncalls' = ncalls + 1 /\ last'.outcome = "result"
           /\ last'.call.user_id \in DOMAIN users)
          => users'[last'.call.user_id]
                = UpdateTrustScore(last'.result.status, users[last'.call.user_id])]_vars

\* A known user's report came back validated and the stored trust is what
\* it was before the call.
C3_ValidatedTrustUnchanged ==
    /\ Returned /\ KnownUser(last.call)
    /\ last.result.status = "validated"
    /\ users[last.call.user_id] = UserStore[last.call.user_id]

\* C4: the reputation score that enters the combiner is the submitting
\* user's stored trust score, and 0.5 for a user the store does not know.
C4_ReputationIsStoredTrust ==
    Returned =>
        last.layer_scores[3] =
            IF KnownUser(last.call) THEN users[last.call.user_id] ELSE 500000

\* The user whose stored trust is 0.8 enters the combiner with 0.5.
C4_TrustedUserScoredNeutral ==
    /\ Returned /\ last.call.user_id = 2
    /\ users[2] = 800000
    /\ last.layer_scores[3] = 500000

InvalidInput(c) ==
    \/ c.lat < -90 * Micro \/ c.lat > 90 * Micro
    \/ c.lon < -180 * Micro \/ c.lon > 180 * Micro
    \/ c.depth < 0

\* C5: on every entry path (validate_report, POST /reports,
\* POST /reports/from-image) a report with a latitude outside [-90,90], a
\* longitude outside [-180,180] or a negative depth is rejected before any
\* layer is scored: no score or status comes back and the cache keeps its
\* content.
C5_InvalidInputRejected ==
    [][(ncalls' = ncalls + 1 /\ InvalidInput(last'.call))
          => /\ last'.outcome # "result"
             /\ recent_reports_cache' = recent_reports_cache]_vars

\* An upload whose GPS tag reads latitude 95 was scored, given a status and
\* stored, and its report is in the cache.
C5_InvalidUploadScored ==
    /\ Returned /\ last.entry = "POST /reports/from-image"
    /\ last.call.lat = LatInvalid
    /\ last.result.status \in {"validated", "flagged"}
    /\ Len(recent_reports_cache) > 0
    /\ recent_reports_cache[Len(recent_reports_cache)] = CurrentReport(last.call)
    /\ Len(reports_db) > 0 /\ reports_db[1].latitude = LatInvalid

\* What the code does keep: POST /reports answers 422 to such a body.
C5_PostReportsRejects ==
    (last.entry = "POST /reports" /\ InvalidInput(last.call)) => last.outcome = "422"

WeatherDefaulted(c) == ~c.rainfall_24h.some /\ c.weather.st # "ok"

SocialDefaulted(c) == c.social.st # "ok"

\* C6: whichever collaborators are unavailable, the call still returns a
\* result with a status, scored with rainfall 0 for a failed weather fetch,
\* corroboration 0.0 for an unreachable news service and 'not in zone' for
\* missing ground truth; a call ends without a result only where the
\* combiner rejects the loaded weight model.
C6_DefaultsForUnavailableSignals ==
    /\ last.outcome = "raised" => Len(weight_network.weights) # 4
    /\ Returned =>
          /\ last.result.status \in {"validated", "flagged"}
          /\ WeatherDefaulted(last.call) =>
                /\ last.result.details.rainfall_24h = 0
                /\ last.result.details.statistical.rule_score =
                      StatisticalValidate(last.call.lat, last.call.lon, last.call.depth,
                                          last.call.recent_reports.v, 0).layer2_score
          /\ SocialDefaulted(last.call) =>
                /\ last.layer_scores[4] = 0
                /\ last.result.details.social.layer4_score = 0
          /\ ~zones_loaded =>
                /\ ~last.result.details.ground_truth.in_flood_zone
                /\ ~last.result.details.physical.zone_boost
                /\ last.layer_scores[1] =
                      PhysicalValidate(last.result.details.features).layer1_score

\* A result returned with the weather fetch failed, the news service
\* unreachable, the terrain rasters missing and no zones loaded.
C6_AllUnavailable ==
    /\ Returned
    /\ WeatherDefaulted(last.call) /\ SocialDefaulted(last.call)
    /\ TerrainUnavailable(last.call.terrain) /\ ~zones_loaded

NeutralFeatures ==
    [elevation |-> 0, hand |-> 5000, slope |-> 2000,
     elevation_neighborhood_mean |-> 0, elevation_diff_from_neighbors |-> 0]

\* C7: when the terrain of a location is unavailable (raster missing, nodata
\* cell, read error) the physical layer is scored with hand=5, slope=2 and
\* elev_diff=0.
C7_NeutralTerrainDefaults ==
    (Returned /\ TerrainUnavailable(last.call.terrain)) =>
        /\ last.result.details.physical.hand_score
              = PhysicalValidate(NeutralFeatures).hand_score
        /\ last.result.details.physical.slope_score
              = PhysicalValidate(NeutralFeatures).slope_score
        /\ last.result.details.physical.elevation_score
              = PhysicalValidate(NeutralFeatures).elevation_score

\* Missing rasters scored as a point at river level on flat ground.
C7_MissingTerrainScoredAsRiverbed ==
    /\ Returned /\ last.call.terrain = TerrainMissing
    /\ last.result.details.features.hand = 0
    /\ last.result.details.features.slope = 0
    /\ last.result.details.physical.hand_score = Micro
    /\ last.result.details.physical.slope_score = Micro

\* The signals of a call that were defaulted.
Defaulted(c) ==
    {x \in {"weather", "terrain", "social"} :
        \/ x = "weather" /\ WeatherDefaulted(c)
        \/ x = "terrain" /\ TerrainUnavailable(c.terrain)
        \/ x = "social" /\ SocialDefaulted(c)}

\* The calls compared: one report, with the weather failing or answering 0 mm,
\* the rasters missing or holding 0, the news service failing or finding
\* nothing.
ProbeCalls ==
    {[BaseCall EXCEPT !.terrain = t, !.weather = w, !.social = x] :
        t \in {TerrainZero, TerrainMissing}, w \in {WeatherFail, WeatherOk(0)},
        x \in {SocialFail, SocialOk(0)}}

\* C8: the result discloses which signals were defaulted: two calls whose
\* results are the same had the same signals defaulted.
C8_ResultDisclosesDefaults ==
    (phase = "ready" /\ Len(weight_network.weights) = 4) =>
        \A c1, c2 \in ProbeCalls :
            ValidateOutcome(c1, recent_reports_cache, zones_loaded, weight_network).result
              = ValidateOutcome(c2, recent_reports_cache, zones_loaded, weight_network).result
            => Defaulted(c1) = Defaulted(c2)

\* What the result does disclose: the source of the corroboration score.
C8_SocialSourceDisclosed ==
    Returned => (SocialDefaulted(last.call) <=> last.result.details.social.source = "None")

DimensionMismatch(file) ==
    file.st = "json" /\ (file.n_layers # 4 \/ Len(file.weights) # 4)

\* C9: a persisted weight model whose layer count or weight-vector length is
\* not 4 fails at load or construction with a dimension-mismatch error: the
\* validator never becomes ready with it, whether as loaded or replaced by
\* the defaults, and no validate_report call is the first to raise on it.
C9_MismatchFailsAtLoad ==
    DimensionMismatch(model_file) => (phase # "ready" /\ last.outcome # "raised")

\* A three-layer model was loaded, the validator came up, and the first
\* validate_report call is where it raises.
C9_MismatchRaisesInValidate ==
    /\ DimensionMismatch(model_file) /\ model_file.n_layers = 3
    /\ phase = "ready" /\ weight_network = Load(model_file)
    /\ last.outcome = "raised" /\ ncalls = 1

(***************************************************************************)
(* The cache at its limit: a validator that has completed 498, 499 or 500  *)
(* calls, and the calls that follow                                        *)
(***************************************************************************)
\* How many further calls one behaviour makes.
MaxCacheCalls == 3

EarlierReport(i) ==
    [report_id |-> i, latitude |-> LatFar, longitude |-> Lon0, depth |-> 100]

Earlier(k) == [i \in 1..k |-> EarlierReport(i)]

\* Calls that bring their own recent reports, some validated (with a flood
\* photo), some flagged.
CacheCalls ==
    {[BaseCall EXCEPT !.report_id = id, !.terrain = TerrainRiver,
                      !.social = SocialOk(10), !.recent_reports = CtxFive,
                      !.image = i] :
        id \in {601, 602}, i \in {NoImage, FloodPhoto}}
    \cup {[BaseCall EXCEPT !.report_id = 603, !.recent_reports = CtxTwo]}

InitCache ==
    /\ phase = "ready"
    /\ model_file \in {NoFile, ModelFile(3, <<400000, 400000, 200000>>, 0)}
    /\ zones_loaded = TRUE
    /\ weight_network = LoadWeightNetwork(model_file)
    /\ \E k \in {CACHE_LIMIT - 2, CACHE_LIMIT - 1, CACHE_LIMIT} :
          /\ recent_reports_cache = Earlier(k)
          /\ history = Earlier(k)
    /\ users = UserStore
    /\ reports_db = << >>
    /\ last = NoCall
    /\ ncalls = 0
    /\ Alone

ValidateReportAtLimit ==
    /\ ncalls < MaxCacheCalls
    /\ \E c \in CacheCalls : Validate("validate_report", c, FALSE)
    /\ ncalls' = ncalls + 1
    /\ UNCHANGED <<phase, model_file, zones_loaded, weight_network, users>>
    /\ StaysAlone

NextCache == ValidateReportAtLimit

SpecCache == InitCache /\ [][NextCache]_vars

LastN(seq, n) == SubSeq(seq, Len(seq) - n + 1, Len(seq))

\* C10: after n completed validate_report calls the cache holds the reports of
\* the last min(n, 500) calls in call order, one entry per call whatever its
\* status, and never more than 500.
C10_CacheIsLastReports ==
    /\ recent_reports_cache = LastN(history, Min(Len(history), CACHE_LIMIT))
    /\ Len(recent_reports_cache) <= CACHE_LIMIT

\* 502 calls completed, the last one validated: the cache is full, its two
\* oldest entries are gone and the newest entry is that call's report.
C10_EvictedAtLimit ==
    /\ Len(history) = CACHE_LIMIT + 2
    /\ Len(recent_reports_cache) = CACHE_LIMIT
    /\ recent_reports_cache[1] = history[3]
    /\ Returned /\ last.result.status = "validated"
    /\ recent_reports_cache[CACHE_LIMIT] = CurrentReport(last.call)

(***************************************************************************)
(* Concurrent validate_report calls on validator_service.  submit_report   *)
(* is a plain def, so the server runs each request in a thread of its      *)
(* pool and the calls interleave between bytecodes.  The statements        *)
(*     self.recent_reports_cache.append(current_report)                    *)
(*     if len(self.recent_reports_cache) > 500:                            *)
(*         self.recent_reports_cache = self.recent_reports_cache[-500:]    *)
(* load the attribute, call append, load it again, call len, load it       *)
(* again, build the slice (a new list) and store the attribute; no lock    *)
(* is held.  heap holds the list objects, cache_ref the one the attribute  *)
(* is bound to.                                                            *)
(***************************************************************************)
\* How many threads of the pool run a call at once.
MaxThreads == 2

Pool == 1..MaxThreads

\* The call of thread t: its own report, and its own recent reports.
PoolCall(t) ==
    [BaseCall EXCEPT !.report_id = 700 + t, !.depth = 100 + 10 * t,
                     !.recent_reports = CtxTwo]

IdleThread == [pc |-> "idle", call |-> BaseCall, ref |-> 0, status |-> "none"]

InitPool ==
    /\ phase = "ready"
    /\ model_file = NoFile
    /\ zones_loaded = TRUE
    /\ weight_network = LoadWeightNetwork(model_file)
    /\ \E k \in {CACHE_LIMIT - 2, CACHE_LIMIT - 1, CACHE_LIMIT} :
          /\ heap = <<Earlier(k)>>
          /\ recent_reports_cache = Earlier(k)
          /\ history = Earlier(k)
    /\ cache_ref = 1
    /\ threads = [t \in Pool |-> IdleThread]
    /\ users = UserStore
    /\ reports_db = << >>
    /\ last = NoCall
    /\ ncalls = 0
    /\ log = << >>
    /\ probe = NoProbe
    /\ users_db = << >>
    /\ demo_reports_db = << >>
    /\ user_counter = 1
    /\ report_counter = 1

PoolUnchanged ==
    UNCHANGED <<phase, model_file, zones_loaded, weight_network, users, reports_db,
                ncalls, log, probe, demoVars>>

\* Steps 0 to 6 of validate_report, up to the status; they write nothing
\* shared.
PoolEnter(t) ==
    /\ threads[t].pc = "idle"
    /\ threads' =
          [threads EXCEPT ![t] =
              [pc |-> "load_append", call |-> PoolCall(t), ref |-> 0,
               status |-> ValidateOutcome(PoolCall(t), heap[cache_ref], zones_loaded,
                                          weight_network).result.status]]
    /\ UNCHANGED <<heap, cache_ref, recent_reports_cache, history, last>>
    /\ PoolUnchanged

\* self.recent_reports_cache, read before append, before len and before the
\* slice.
PoolLoadCache(t) ==
    /\ threads[t].pc \in {"load_append", "load_len", "load_slice"}
    /\ threads' =
          [threads EXCEPT ![t].ref = cache_ref,
                          ![t].pc = CASE threads[t].pc = "load_append" -> "append"
                                      [] threads[t].pc = "load_len" -> "len"
                                      [] OTHER -> "slice"]
    /\ UNCHANGED <<heap, cache_ref, recent_reports_cache, history, last>>
    /\ PoolUnchanged

\* .append(current_report), on the object that was loaded.
PoolAppend(t) ==
    /\ threads[t].pc = "append"
    /\ heap' = [heap EXCEPT ![threads[t].ref] = Append(@, CurrentReport(threads[t].call))]
    /\ recent_reports_cache' = heap'[cache_ref]
    /\ history' = Append(history, CurrentReport(threads[t].call))
    /\ threads' = [threads EXCEPT ![t].pc = "load_len"]
    /\ UNCHANGED <<cache_ref, last>>
    /\ PoolUnchanged

\* if len(...) > 500
PoolLen(t) ==
    /\ threads[t].pc = "len"
    /\ threads' =
          [threads EXCEPT ![t].pc = IF Len(heap[threads[t].ref]) > CACHE_LIMIT
                                    THEN "load_slice" ELSE "return"]
    /\ UNCHANGED <<heap, cache_ref, recent_reports_cache, history, last>>
    /\ PoolUnchanged

\* [-500:] builds a new list from the object that was loaded.
PoolSlice(t) ==
    /\ threads[t].pc = "slice"
    /\ heap' = Append(heap, Evict(heap[threads[t].ref]))
    /\ threads' = [threads EXCEPT ![t].ref = Len(heap) + 1, ![t].pc = "store"]
    /\ UNCHANGED <<cache_ref, recent_reports_cache, history, last>>
    /\ PoolUnchanged

\* self.recent_reports_cache = <the new list>
PoolStore(t) ==
    /\ threads[t].pc = "store"
    /\ cache_ref' = threads[t].ref
    /\ recent_reports_cache' = heap[threads[t].ref]
    /\ threads' = [threads EXCEPT ![t].pc = "return"]
    /\ UNCHANGED <<heap, history, last>>
    /\ PoolUnchanged

\* return {...}
PoolReturn(t) ==
    /\ threads[t].pc = "return"
    /\ threads' = [threads EXCEPT ![t].pc = "done"]
    /\ last' = [NoCall EXCEPT !.entry = "validate_report", !.outcome = "result",
                              !.call = threads[t].call,
                              !.result = [status |-> threads[t].status]]
    /\ UNCHANGED <<heap, cache_ref, recent_reports_cache, history>>
    /\ PoolUnchanged

NextPool ==
    \E t \in Pool :
        \/ PoolEnter(t)
        \/ PoolLoadCache(t)
        \/ PoolAppend(t)
        \/ PoolLen(t)
        \/ PoolSlice(t)
        \/ PoolStore(t)
        \/ PoolReturn(t)

SpecPool == InitPool /\ [][NextPool]_vars

AllReturned == \A t \in Pool : threads[t].pc = "done"

InCache(report) ==
    \E i \in 1..Len(recent_reports_cache) : recent_reports_cache[i] = report

\* C11: when the concurrent validate_report calls have all returned, the
\* cache holds the report of every one of them (they are fewer than 500, so
\* first-in-first-out eviction removes none) and has at most 500 entries.
C11_CacheAsIfSerialized ==
    AllReturned =>
        /\ \A t \in Pool : InCache(CurrentReport(threads[t].call))
        /\ Len(recent_reports_cache) <= CACHE_LIMIT

\* Both calls returned a result and appended their report, and the cache
\* holds one of the two reports only.
C11_ReportLost ==
    /\ AllReturned
    /\ Len(history) > CACHE_LIMIT
    /\ \A t \in Pool : \E i \in 1..Len(history) : history[i] = CurrentReport(threads[t].call)
    /\ \E t \in Pool : ~InCache(CurrentReport(threads[t].call))
    /\ \E t \in Pool : InCache(CurrentReport(threads[t].call))
    /\ Len(recent_reports_cache) = CACHE_LIMIT

(***************************************************************************)
(* The demo application (src/src/api/demo.py): users_db, reports_db and    *)
(* the two counters are module globals, create_user and                    *)
(* submit_flood_report are plain defs run by the threads of the pool, and  *)
(* no lock is held.  A thread can be preempted between any two bytecodes:  *)
(* a counter += 1 and a user["..."] += 1 are a load and a later store.     *)
(***************************************************************************)
\* How many requests one behaviour handles.
MaxRequests == 3

DemoUser(user_id, username) ==
    [user_id |-> user_id, username |-> username, trust_score |-> 500000,
     total_reports |-> 0, verified_reports |-> 0]

\* POST /users and POST /reports bodies, with what the collaborators answer.
CreateRequest(username) ==
    [kind |-> "user", username |-> username, report |-> BaseCall]

ReportRequest(user_id, lat, weather) ==
    [kind |-> "report", username |-> "",
     report |-> [Request(user_id, lat, Lon0, 100) EXCEPT !.weather = weather]]

DemoRequests ==
    {CreateRequest(n) : n \in {"asha", "bina"}}
    \cup {ReportRequest(1, LatCuttack, WeatherOk(60000)),
          ReportRequest(1, LatFar, WeatherFail),
          ReportRequest(9, LatCuttack, WeatherOk(60000))}

DemoIdle ==
    [pc |-> "idle", req |-> CreateRequest(""), n0 |-> 0, idx |-> 0, user_id |-> 0,
     report_id |-> 0, tmp |-> 0, status |-> "none", final_score |-> 0, code |-> 0]

InitDemo ==
    /\ users_db = (1 :> DemoUser(1, "asha"))
    /\ demo_reports_db = << >>
    /\ user_counter = 2
    /\ report_counter = 1
    /\ threads = [t \in Pool |-> DemoIdle]
    /\ log = << >>
    /\ ncalls = 0
    /\ zones_loaded = TRUE
    /\ phase = "ready"
    /\ model_file = NoFile
    /\ weight_network = NewWeightNetwork(4)
    /\ recent_reports_cache = << >>
    /\ users = UserStore
    /\ reports_db = << >>
    /\ last = NoCall
    /\ history = << >>
    /\ heap = << >>
    /\ cache_ref = 0
    /\ probe = NoProbe

DemoUnchanged ==
    UNCHANGED <<phase, model_file, zones_loaded, weight_network, recent_reports_cache,
                users, reports_db, last, history, heap, cache_ref, probe>>

\* The k-th key of the dict in iteration order.
KeyAt(db, k) == CHOOSE u \in DOMAIN db : Cardinality({v \in DOMAIN db : v <= u}) = k

Put(db, key, value) ==
    [k \in DOMAIN db \cup {key} |-> IF k = key THEN value ELSE db[k]]

\* The handler raises or returns: the thread is free again.
Finish(t, code, locals) ==
    /\ threads' = [threads EXCEPT ![t] = [locals EXCEPT !.pc = "idle", !.code = code]]
    /\ log' = Append(log, [locals EXCEPT !.pc = "done", !.code = code])

\* A request arrives and a free thread of the pool takes it.
DemoAccept(t) ==
    /\ threads[t].pc = "idle"
    /\ ncalls < MaxRequests
    /\ ncalls' = ncalls + 1
    /\ \E req \in DemoRequests :
          threads' = [threads EXCEPT ![t] =
                         [DemoIdle EXCEPT !.req = req,
                                          !.pc = IF req.kind = "user" THEN "iter" ELSE "lookup"]]
    /\ UNCHANGED <<demoVars, log>>
    /\ DemoUnchanged

\* create_user: for u in users_db.values() makes the iterator.
CreateIter(t) ==
    /\ threads[t].pc = "iter"
    /\ threads' = [threads EXCEPT ![t].n0 = Cardinality(DOMAIN users_db),
                                  ![t].idx = 0, ![t].pc = "next"]
    /\ UNCHANGED <<demoVars, log, ncalls>>
    /\ DemoUnchanged

\* One step of the loop: RuntimeError when the dict changed size, 400 when
\* the next user has the username, on to the next, or out of the loop.
CreateNext(t) ==
    /\ threads[t].pc = "next"
    /\ IF Cardinality(DOMAIN users_db) # threads[t].n0
       THEN Finish(t, 500, threads[t])
       ELSE IF threads[t].idx < threads[t].n0
            THEN IF users_db[KeyAt(users_db, threads[t].idx + 1)].username
                        = threads[t].req.username
                 THEN Finish(t, 400, threads[t])
                 ELSE /\ threads' = [threads EXCEPT ![t].idx = @ + 1]
                      /\ UNCHANGED log
            ELSE /\ threads' = [threads EXCEPT ![t].pc = "user_id"]
                 /\ UNCHANGED log
    /\ UNCHANGED <<demoVars, ncalls>>
    /\ DemoUnchanged

\* user_id = user_counter
CreateUserId(t) ==
    /\ threads[t].pc = "user_id"
    /\ threads' = [threads EXCEPT ![t].user_id = user_counter, ![t].pc = "load_counter"]
    /\ UNCHANGED <<demoVars, log, ncalls>>
    /\ DemoUnchanged

\* user_counter += 1 and report_counter += 1: the load
LoadCounter(t) ==
    /\ threads[t].pc = "load_counter"
    /\ threads' = [threads EXCEPT ![t].tmp = IF threads[t].req.kind = "user"
                                             THEN user_counter ELSE report_counter,
                                  ![t].pc = "store_counter"]
    /\ UNCHANGED <<demoVars, log, ncalls>>
    /\ DemoUnchanged

\* user_counter += 1 and report_counter += 1: the store
StoreCounter(t) ==
    /\ threads[t].pc = "store_counter"
    /\ IF threads[t].req.kind = "user"
       THEN user_counter' = threads[t].tmp + 1 /\ UNCHANGED report_counter
       ELSE report_counter' = threads[t].tmp + 1 /\ UNCHANGED user_counter
    /\ threads' = [threads EXCEPT ![t].pc = "insert"]
    /\ UNCHANGED <<users_db, demo_reports_db, log, ncalls>>
    /\ DemoUnchanged

\* users_db[user_id] = {...}
CreateInsert(t) ==
    /\ threads[t].pc = "insert" /\ threads[t].req.kind = "user"
    /\ users_db' = Put(users_db, threads[t].user_id,
                       DemoUser(threads[t].user_id, threads[t].req.username))
    /\ threads' = [threads EXCEPT ![t].pc = "return"]
    /\ UNCHANGED <<demo_reports_db, user_counter, report_counter, log, ncalls>>
    /\ DemoUnchanged

\* return users_db[user_id], with status 201
CreateReturn(t) ==
    /\ threads[t].pc = "return" /\ threads[t].req.kind = "user"
    /\ Finish(t, 201, threads[t])
    /\ UNCHANGED <<demoVars, ncalls>>
    /\ DemoUnchanged

\* submit_flood_report: the score from the user's trust and the context.
DemoFinalScore(trust_score, report) ==
    LET weather_ctx == GetCurrentWeather(report.weather)
        rainfall == IF weather_ctx.some THEN weather_ctx.v ELSE 0
        in_zone == CheckGroundTruth(report.lat, report.lon, zones_loaded).in_flood_zone
        social_buzz == GetSocialContext(report.social).buzz_score
        base_score == (trust_score * 3) \div 10
                      + (IF in_zone THEN 400000 ELSE 0)
                      + (IF rainfall > 10000 THEN 200000 ELSE 0)
                      + (IF social_buzz > 300000 THEN 100000 ELSE 0)
                      + (IF 20 < report.depth /\ report.depth < 300 THEN 100000 ELSE 0)
    IN  Min(base_score, Micro)

\* if report.user_id not in users_db: 404; user = users_db[report.user_id]
ReportLookup(t) ==
    /\ threads[t].pc = "lookup"
    /\ IF threads[t].req.report.user_id \notin DOMAIN users_db
       THEN Finish(t, 404, threads[t])
       ELSE /\ threads' = [threads EXCEPT ![t].user_id = threads[t].req.report.user_id,
                                          ![t].pc = "score"]
            /\ UNCHANGED log
    /\ UNCHANGED <<demoVars, ncalls>>
    /\ DemoUnchanged

\* The context is fetched, the score and the status computed.
ReportScore(t) ==
    /\ threads[t].pc = "score"
    /\ LET final_score == DemoFinalScore(users_db[threads[t].user_id].trust_score,
                                         threads[t].req.report)
       IN  threads' = [threads EXCEPT ![t].final_score = final_score,
                                      ![t].status = Decide(final_score),
                                      ![t].pc = "report_id"]
    /\ UNCHANGED <<demoVars, log, ncalls>>
    /\ DemoUnchanged

\* report_id = report_counter
ReportId(t) ==
    /\ threads[t].pc = "report_id"
    /\ threads' = [threads EXCEPT ![t].report_id = report_counter, ![t].pc = "load_counter"]
    /\ UNCHANGED <<demoVars, log, ncalls>>
    /\ DemoUnchanged

\* reports_db[report_id] = {...}
ReportInsert(t) ==
    /\ threads[t].pc = "insert" /\ threads[t].req.kind = "report"
    /\ demo_reports_db' =
          Put(demo_reports_db, threads[t].report_id,
              [report_id |-> threads[t].report_id, user_id |-> threads[t].user_id,
               validation_status |-> threads[t].status,
               final_score |-> Round3(threads[t].final_score)])
    /\ threads' = [threads EXCEPT ![t].pc = "load_total"]
    /\ UNCHANGED <<users_db, user_counter, report_counter, log, ncalls>>
    /\ DemoUnchanged

\* user["total_reports"] += 1, user["verified_reports"] += 1 and
\* user["trust_score"] = min(1.0, user["trust_score"] + 0.05): the load
ReportLoadField(t) ==
    /\ threads[t].pc \in {"load_total", "load_verified", "load_trust"}
    /\ LET user == users_db[threads[t].user_id]
       IN  threads' =
              [threads EXCEPT
                  ![t].tmp = CASE threads[t].pc = "load_total" -> user.total_reports
                               [] threads[t].pc = "load_verified" -> user.verified_reports
                               [] OTHER -> user.trust_score,
                  ![t].pc = CASE threads[t].pc = "load_total" -> "store_total"
                              [] threads[t].pc = "load_verified" -> "store_verified"
                              [] OTHER -> "store_trust"]
    /\ UNCHANGED <<demoVars, log, ncalls>>
    /\ DemoUnchanged

\* ... and the store; the two last only if the report is validated.
ReportStoreField(t) ==
    /\ threads[t].pc \in {"store_total", "store_verified", "store_trust"}
    /\ users_db' =
          [users_db EXCEPT ![threads[t].user_id] =
              CASE threads[t].pc = "store_total" ->
                       [@ EXCEPT !.total_reports = threads[t].tmp + 1]
                [] threads[t].pc = "store_verified" ->
                       [@ EXCEPT !.verified_reports = threads[t].tmp + 1]
                [] OTHER ->
                       [@ EXCEPT !.trust_score = Min(Micro, threads[t].tmp + 50000)]]
    /\ threads' =
          [threads EXCEPT
              ![t].pc = CASE threads[t].pc = "store_total" ->
                                IF threads[t].status = "validated"
                                THEN "load_verified" ELSE "return"
                          [] threads[t].pc = "store_verified" -> "load_trust"
                          [] OTHER -> "return"]
    /\ UNCHANGED <<demo_reports_db, user_counter, report_counter, log, ncalls>>
    /\ DemoUnchanged

\* return {...}, with status 201
ReportReturn(t) ==
    /\ threads[t].pc = "return" /\ threads[t].req.kind = "report"
    /\ Finish(t, 201, threads[t])
    /\ UNCHANGED <<demoVars, ncalls>>
    /\ DemoUnchanged

NextDemo ==
    \E t \in Pool :
        \/ DemoAccept(t)
        \/ CreateIter(t)
        \/ CreateNext(t)
        \/ CreateUserId(t)
        \/ LoadCounter(t)
        \/ StoreCounter(t)
        \/ CreateInsert(t)
        \/ CreateReturn(t)
        \/ ReportLookup(t)
        \/ ReportScore(t)
        \/ ReportId(t)
        \/ ReportInsert(t)
        \/ ReportLoadField(t)
        \/ ReportStoreField(t)
        \/ ReportReturn(t)

SpecDemo == InitDemo /\ [][NextDemo]_vars

Quiet == \A t \in Pool : threads[t].pc = "idle"

\* The completed submissions of user u, and the validated ones among them.
Submitted(u) ==
    {i \in 1..Len(log) : /\ log[i].req.kind = "report" /\ log[i].code = 201
                          /\ log[i].user_id = u}

Validated(u) == {i \in Submitted(u) : log[i].status = "validated"}

\* C12: once the submissions of a user have all completed, that user's
\* stored counters and trust reflect every one of them: total_reports counts
\* the submissions, verified_reports the validated ones, and the trust score
\* has gained 0.05 (up to 1.0) for each validated one.
C12_NoLostUpdate ==
    Quiet =>
        /\ users_db[1].total_reports = Cardinality(Submitted(1))
        /\ users_db[1].verified_reports = Cardinality(Validated(1))
        /\ users_db[1].trust_score = Min(Micro, 500000 + 50000 * Cardinality(Validated(1)))

\* Two validated submissions of user 1 completed, and the stored trust
\* shows one increment.
C12_TrustUpdateLost ==
    /\ Quiet
    /\ Cardinality(Validated(1)) = 2
    /\ users_db[1].trust_score = 550000

\* The POST /users requests that have been answered.
Created == {i \in 1..Len(log) : log[i].req.kind = "user"}

\* C20: whatever the order and interleaving of the user-creation requests,
\* no two registered users share a username, every such request is answered
\* 201 or 400 ('Username already registered'), and every registered user
\* that has submitted nothing holds trust 0.5.
C20_UsernamesUnique ==
    /\ \A u, v \in DOMAIN users_db :
          u # v => users_db[u].username # users_db[v].username
    /\ \A i \in Created : log[i].code \in {201, 400}
    /\ \A u \in DOMAIN users_db :
          users_db[u].total_reports = 0 => users_db[u].trust_score = 500000

\* Two requests for the username "bina" were both answered 201, and two
\* users of that name are registered.
C20_DuplicateRegistered ==
    /\ Quiet
    /\ \E i, j \in Created :
          /\ i # j /\ log[i].code = 201 /\ log[j].code = 201
          /\ log[i].req.username = "bina" /\ log[j].req.username = "bina"
    /\ \E u, v \in DOMAIN users_db :
          u # v /\ users_db[u].username = "bina" /\ users_db[v].username = "bina"

(***************************************************************************)
(* The same call made again: validators constructed one after another      *)
(* (FloodReportValidator() at every start of the service) over a weight    *)
(* file that may have been replaced in between, and every call logged      *)
(* with the cache and the weight network it found.                         *)
(***************************************************************************)
\* How many validate_report calls one behaviour makes.
MaxIdemCalls == 4

\* Two calls that leave the context to the cache, and one that brings its
\* own and a photo.
IdemCalls ==
    {BaseCall,
     [BaseCall EXCEPT !.report_id = 2, !.lat = LatNear],
     [BaseCall EXCEPT !.report_id = 3, !.recent_reports = CtxTwo,
                      !.social = SocialOk(10), !.image = FloodPhoto,
                      !.terrain = TerrainRiver]}

IdemFiles == {NoFile, ModelFile(4, TrainedWeights, 300000)}

InitIdem ==
    /\ phase = "ready"
    /\ model_file \in IdemFiles
    /\ zones_loaded = TRUE
    /\ weight_network = LoadWeightNetwork(model_file)
    /\ recent_reports_cache = << >>
    /\ users = UserStore
    /\ reports_db = << >>
    /\ last = NoCall
    /\ history = << >>
    /\ ncalls = 0
    /\ Alone

\* One validate_report call, logged with what it was given and what it
\* returned.
ValidateLogged ==
    /\ ncalls < MaxIdemCalls
    /\ \E c \in IdemCalls : Validate("validate_report", c, FALSE)
    /\ log' = Append(log, [call |-> last'.call, cache |-> recent_reports_cache,
                           weight_network |-> weight_network,
                           outcome |-> last'.outcome, result |-> last'.result])
    /\ ncalls' = ncalls + 1
    /\ UNCHANGED <<phase, model_file, zones_loaded, weight_network, users>>
    /\ UNCHANGED <<poolVars, demoVars, probe>>

\* The service starts again: a new validator with an empty cache and the
\* weight network of the file now on disk.
Reconstruct ==
    /\ recent_reports_cache # << >>
    /\ model_file' \in IdemFiles
    /\ weight_network' = LoadWeightNetwork(model_file')
    /\ recent_reports_cache' = << >>
    /\ UNCHANGED <<phase, zones_loaded, users, reports_db, last, history, ncalls>>
    /\ StaysAlone

NextIdem == ValidateLogged \/ Reconstruct

SpecIdem == InitIdem /\ [][NextIdem]_vars

SameInputs(a, b) ==
    /\ a.call = b.call
    /\ a.cache = b.cache
    /\ a.weight_network = b.weight_network

MaxCluster == 11

Hands == {0, 500, 999, 1000, 1001, 2000, 5000, 5001, 7000, 10000, 10001, 15000}

Slopes == {0, 1500, 10000, 15000, 15001, 20000, 30000, 30001, 35000}

ElevDiffs == {-3000, -2001, -2000, -500, 0, 5000, 5001, 12000}

TrustStarts == {-200000, 0, 50000, 500000, 950000, Micro, 1300000}

Outcomes == {"validated", "flagged", "pending"}

ReportAt(id, lat) == [report_id |-> id, latitude |-> lat, longitude |-> Lon0, depth |-> 100]

\* n reports at Cuttack followed by m reports a little over one degree north.
ClusterReports(n, m) ==
    [i \in 1..n |-> ReportAt(i, LatCuttack)] \o [i \in 1..m |-> ReportAt(50 + i, LatFar)]

InitUnits ==
    /\ phase = "ready"
    /\ model_file = NoFile
    /\ zones_loaded \in BOOLEAN
    /\ weight_network = LoadWeightNetwork(model_file)
    /\ recent_reports_cache = << >>
    /\ users = UserStore
    /\ reports_db = << >>
    /\ last = NoCall
    /\ history = << >>
    /\ ncalls = 0
    /\ Alone

UnitsUnchanged == UNCHANGED <<serviceVars, poolVars, demoVars, log>>

\* One behaviour calls one unit, any number of times.
Calling(unit) == probe.unit \in {"none", unit}

\* A unit without state is called once in a behaviour.
FirstCall == probe.unit = "none"

\* validator.validate(lat, lon, depth, features)
PhysicalValidatorValidate ==
    /\ FirstCall
    /\ \E hand \in Hands, slope \in Slopes, elev_diff \in ElevDiffs :
          LET features == [hand |-> hand, slope |-> slope,
                           elevation_diff_from_neighbors |-> elev_diff]
          IN  probe' = [unit |-> "physical", features |-> features,
                        result |-> PhysicalValidate(features)]
    /\ UnitsUnchanged

\* update_trust_score(user_id, report_outcome, current_score), on a score
\* given from outside or on the score the call before returned.
UpdateTrustScoreCall ==
    /\ Calling("trust")
    /\ \E report_outcome \in Outcomes,
          current_score \in (IF probe.unit = "trust" THEN {probe.returned} ELSE TrustStarts) :
          probe' = [unit |-> "trust", report_outcome |-> report_outcome,
                    current_score |-> current_score,
                    returned |-> UpdateTrustScore(report_outcome, current_score)]
    /\ UnitsUnchanged

\* k reports halfway between the two places, within the radius of both, and
\* j reports one degree north of the northern place, within its radius only.
LatNorth == 22 * Micro + 500000

MidReports(k, j) ==
    [i \in 1..k |-> ReportAt(60 + i, LatFiftyKm)] \o [i \in 1..j |-> ReportAt(70 + i, LatNorth)]

\* get_cluster_score(report, all_reports): the report is the first of the
\* list, or a new one at Cuttack, halfway, to the north or further north.
GetClusterScoreCall ==
    /\ FirstCall
    /\ \E n \in 0..MaxCluster, m \in 0..2, k \in 0..1, j \in 0..1,
          report \in {ReportAt(1, LatCuttack), ReportAt(99, LatCuttack),
                      ReportAt(98, LatFar), ReportAt(97, LatFiftyKm),
                      ReportAt(96, LatNorth)} :
          probe' = [unit |-> "cluster", report |-> report,
                    all_reports |-> ClusterReports(n, m) \o MidReports(k, j),
                    score |-> GetClusterScore(report, ClusterReports(n, m) \o MidReports(k, j))]
    /\ UnitsUnchanged

\* test_full_validator_pipeline: FloodReportValidator() with
\* extract_all_features returning MOCK_FEATURES_FLOODABLE and get_trust_score
\* returning 0.8, called at (20.5, 85.5) with depth 1.0 and rainfall_24h 50;
\* the social service answers what it will.
TestFullValidatorPipeline ==
    /\ FirstCall
    /\ \E social \in {SocialFail} \cup {SocialOk(n) : n \in 0..10} :
          LET c == [BaseCall EXCEPT !.lat = 20500000, !.lon = 85500000, !.depth = 100,
                                    !.rainfall_24h = Some(50000), !.social = social,
                                    !.terrain = TerrainFloodable]
          IN  probe' = [unit |-> "pipeline", call |-> c,
                        out |-> Combine(c, LayerScoresGiven(c, << >>, zones_loaded,
                                                            [layer3_score |-> 800000]),
                                        VisualLayer(c.image), NewWeightNetwork(4))]
    /\ UnitsUnchanged

\* a rows 0.001 degrees north of the report, b rows 0.002 degrees and c rows
\* 0.005 degrees north of it; the depth of the i-th row is 1.0 m plus i steps.
ContextRows(a, b, c, step) ==
    [i \in 1..(a + b + c) |->
        Row(LatCuttack + (IF i <= a THEN 1000 ELSE IF i <= a + b THEN 2000 ELSE 5000),
            100 + step * i)]

Rainfalls == {0, 1, 10000, 10001, 50000, 50001, 100000, 100001, 120000}

Depths == {100, 149, 150, 174, 175, 199, 200, 300}

\* StatisticalValidator.validate(lat, lon, depth, timestamp, recent_reports,
\* rainfall_24h)
StatisticalValidatorValidate ==
    /\ FirstCall
    /\ \E a \in 0..5, b \in 0..2, c \in 0..1, step \in {0, 25},
          depth \in Depths, rainfall_24h \in Rainfalls :
          probe' = [unit |-> "statistical", lat |-> LatCuttack, lon |-> Lon0,
                    depth |-> depth, recent_reports |-> ContextRows(a, b, c, step),
                    rainfall_24h |-> rainfall_24h,
                    result |-> StatisticalValidate(LatCuttack, Lon0, depth,
                                                   ContextRows(a, b, c, step),
                                                   rainfall_24h)]
    /\ UnitsUnchanged

\* The networks saved: default ones of 1 to 5 layers, trained ones, one with
\* more weights than layers.
SavedNetworks ==
    {NewWeightNetwork(n) : n \in 1..5}
    \cup {[n_layers |-> 4, weights |-> TrainedWeights, bias |-> b] :
             b \in {0, 300000, -1250000, 3000000, 1}}
    \cup {[n_layers |-> 4, weights |-> <<1234567, -7, 999999, 100>>, bias |-> -1]}
    \cup {[n_layers |-> 3, weights |-> TrainedWeights, bias |-> 0]}

\* m.save(path) followed by WeightLearningNetwork.load(path)
SaveAndLoad ==
    /\ FirstCall
    /\ \E m \in SavedNetworks :
          probe' = [unit |-> "persist", model |-> m, text |-> Save(m),
                    raises |-> LoadRaises(JsonLoad(Save(m))),
                    loaded |-> Load(JsonLoad(Save(m)))]
    /\ UnitsUnchanged

\* The layer scores, images and weight networks the aggregation is tried on.
ScoreGrid == {0, 500000, 700000, 900000, Micro}

ImageLengths == {500, 999, 1000, 5000, 10000000, 10000001}

UnitImages ==
    {NoImage} \cup {Image(n, flood, water) :
                       n \in ImageLengths, flood \in BOOLEAN, water \in {0, 300000}}

UnitNetworks == {NewWeightNetwork(4), Load(ModelFile(4, TrainedWeights, 300000))}

\* Layer 5 and the weighted aggregation of validate_report, on layer scores
\* given: validate_image, forward, the photo boost and the status.
AggregateCall ==
    /\ FirstCall
    /\ \E l1_score \in ScoreGrid, l2_score \in ScoreGrid, l3_score \in ScoreGrid,
          l4_score \in {0, 300000, Micro}, image \in UnitImages, wn \in UnitNetworks :
          LET layer_scores == <<l1_score, l2_score, l3_score, l4_score>>
          IN  probe' = [unit |-> "aggregate", weight_network |-> wn,
                        layer_scores |-> layer_scores, image |-> image,
                        cv_result |-> ValidateImage(image),
                        l5_result |-> VisualLayer(image),
                        forward |-> Forward(wn, layer_scores),
                        final_score |-> PhotoBoost(Forward(wn, layer_scores),
                                                   VisualLayer(image)),
                        status |-> Decide(PhotoBoost(Forward(wn, layer_scores),
                                                     VisualLayer(image)))]
    /\ UnitsUnchanged

NextUnits ==
    \/ PhysicalValidatorValidate
    \/ UpdateTrustScoreCall
    \/ GetClusterScoreCall
    \/ TestFullValidatorPipeline
    \/ AggregateCall
    \/ StatisticalValidatorValidate
    \/ SaveAndLoad

SpecUnits == InitUnits /\ [][NextUnits]_vars

\* C14: the new validator, on floodable terrain, a user of trust 0.8 and 50 mm
\* of rain, with no context reports and no image, returns 'validated' with a
\* final_score above 0.7 whatever the corroboration score.
C14_PipelineValidates ==
    probe.unit = "pipeline" =>
        /\ ~probe.out.raises
        /\ probe.out.result.status = "validated"
        /\ probe.out.result.final_score > 700000

\* The same call with the corroboration score at 1.0: flagged, below 0.7.
C14_FlaggedAtFullCorroboration ==
    /\ probe.unit = "pipeline"
    /\ probe.out.layer_scores[3] = 800000
    /\ probe.out.layer_scores[4] = Micro
    /\ probe.out.result.status = "flagged"
    /\ probe.out.result.final_score < 700000

PlausibleTerrain ==
    /\ probe.unit = "physical"
    /\ probe.features.hand = 2000
    /\ probe.features.slope = 1500
    /\ probe.features.elevation_diff_from_neighbors = -500

\* C15: on the plausible flood terrain (hand 2.0, slope 1.5, elevation
\* difference -0.5) validate returns hand_score 1.0 and a layer1_score above
\* 0.8.
C15_PlausibleTerrainScores ==
    PlausibleTerrain =>
        /\ probe.result.hand_score = Micro
        /\ probe.result.layer1_score > 800000

\* On that terrain hand_score is 0.85 and layer1_score 0.846.
C15_HandScoreOnTheSlope ==
    /\ PlausibleTerrain
    /\ probe.result.hand_score = 850000
    /\ probe.result.layer1_score = 846000

\* The sub-scores as the claim states them, in millionths.
HandSub(hand) ==
    CASE hand > 10000 -> 100000
      [] hand > 5000 /\ hand <= 10000 -> 400000
      [] hand < 1000 -> Micro
      [] OTHER -> Micro - (150000 * (hand - 1000)) \div 1000

SlopeSub(slope) ==
    CASE slope > 30000 -> 0
      [] slope > 15000 /\ slope <= 30000 -> 300000
      [] OTHER -> Micro - (46000 * slope) \div 1000

ElevSub(elev_diff) ==
    CASE elev_diff > 5000 -> 200000
      [] elev_diff < -2000 -> Micro
      [] OTHER -> 800000

Clamp01(x) == IF x < 0 THEN 0 ELSE IF x > Micro THEN Micro ELSE x

\* C17: update_trust_score returns clamp(current + 0.1) for 'validated' and
\* clamp(current - 0.15) for 'flagged'; what it returns is in [0, 1] for
\* every starting value and every outcome string, at every point of a
\* sequence of updates.
C17_TrustClamped ==
    probe.unit = "trust" =>
        /\ 0 <= probe.returned /\ probe.returned <= Micro
        /\ probe.report_outcome = "validated" =>
              probe.returned = Clamp01(probe.current_score + 100000)
        /\ probe.report_outcome = "flagged" =>
              probe.returned = Clamp01(probe.current_score - 150000)

\* 0.05 flagged gives 0.0.
C17_FlaggedToZero ==
    /\ probe.unit = "trust"
    /\ probe.current_score = 50000
    /\ probe.report_outcome = "flagged"
    /\ probe.returned = 0

\* The list get_cluster_score clusters, and the candidate's place in it.
Clustered ==
    IF ReportIndex(probe.report, probe.all_reports) = 0
    THEN Append(probe.all_reports, probe.report)
    ELSE probe.all_reports

CandidateLabel ==
    FitPredict(Clustered)[IF ReportIndex(probe.report, probe.all_reports) = 0
                          THEN Len(Clustered)
                          ELSE ReportIndex(probe.report, probe.all_reports)]

CandidateClusterSize ==
    Cardinality({j \in 1..Len(Clustered) : FitPredict(Clustered)[j] = CandidateLabel})

\* C19: with two reports or more, the score is 0.2 for a noise candidate,
\* 1.0 in a cluster of ten or more, 0.85 of five or more, 0.7 of three or
\* more, 0.5 otherwise.
C19_ScoreBySize ==
    (probe.unit = "cluster" /\ Len(probe.all_reports) >= 2) =>
        probe.score = CASE CandidateLabel = -1 -> 200000
                        [] CandidateLabel # -1 /\ CandidateClusterSize >= 10 -> Micro
                        [] CandidateLabel # -1 /\ CandidateClusterSize \in 5..9 -> 850000
                        [] CandidateLabel # -1 /\ CandidateClusterSize \in 3..4 -> 700000
                        [] OTHER -> 500000

\* A candidate in a cluster of seven scores 0.85.
C19_ClusterOfSeven ==
    /\ probe.unit = "cluster"
    /\ CandidateLabel # -1
    /\ CandidateClusterSize = 7
    /\ probe.score = 850000

\* The sum of the four weights a result reports.
ReportedSum(learned_weights) ==
    learned_weights.L1_physical + learned_weights.L2_statistical
    + learned_weights.L3_reputation + learned_weights.L4_social

\* One, to the rounding of n quotients.
AboutOne(x, n) == Micro - n <= x /\ x <= Micro + n

\* C18: the normalized weights forward uses, and the weights a returned
\* result reports, are non-negative and sum to 1, whatever raw weight vector
\* the validator holds (the default one or a loaded one).
C18_WeightsNormalized ==
    Returned =>
        LET normalized == Softmax(weight_network.weights)
            reported == last.result.learned_weights
        IN  /\ \A i \in 1..Len(normalized) : normalized[i] >= 0
            /\ AboutOne(SumSeq(normalized), Len(normalized))
            /\ reported.L1_physical >= 0 /\ reported.L2_statistical >= 0
            /\ reported.L3_reputation >= 0 /\ reported.L4_social >= 0
            /\ AboutOne(ReportedSum(reported), 4)

\* A loaded model with n_layers 3 and four weights: forward used four
\* normalized weights, the result reports three of them and 0.0, and the
\* reported weights sum to less than 1.
C18_ReportedWeightsFallShort ==
    /\ Returned
    /\ weight_network.n_layers = 3 /\ Len(weight_network.weights) = 4
    /\ AboutOne(SumSeq(Softmax(weight_network.weights)), 4)
    /\ Softmax(weight_network.weights)[4] > 0
    /\ last.result.learned_weights.L4_social = 0
    /\ ReportedSum(last.result.learned_weights) < Micro - 4

\* The score of the label the candidate's own coordinates get in the
\* clustering over the context followed by the candidate.
OwnLabelScore(report, context) ==
    LET labels == FitPredict(Append(context, report))
    IN  ScoreOfLabel(labels, labels[Len(labels)])

\* C21: whenever validate_report clusters (two context reports or more), the
\* dbscan score it reports is the score of the label the candidate's own
\* coordinates get in the clustering over context plus candidate, also when
\* the cache holds entries of the candidate's report_id.
C21_OwnLabelScored ==
    \A i \in 1..Len(log) :
        (log[i].outcome = "result"
         /\ Len(ReportsList(log[i].call, log[i].cache)) >= 2) =>
            log[i].result.details.statistical.dbscan_score =
                Round3(OwnLabelScore(CurrentReport(log[i].call),
                                     ReportsList(log[i].call, log[i].cache)))

\* The third call of report_id 1 from one place: the cache holds two entries
\* of that id, the first of them is taken for the candidate, the two are
\* clustered without it and it scores 0.2 where the three together make a
\* cluster that scores 0.7.
C21_CachedLabelScored ==
    /\ Len(log) >= 3
    /\ log[3].outcome = "result"
    /\ log[3].call = BaseCall
    /\ log[3].cache = <<CurrentReport(BaseCall), CurrentReport(BaseCall)>>
    /\ ReportIndex(CurrentReport(log[3].call), log[3].cache) = 1
    /\ log[3].result.details.statistical.dbscan_score = 200000
    /\ OwnLabelScore(CurrentReport(log[3].call), log[3].cache) = 700000

\* The great-circle distance of two reports of one meridian, in metres: a
\* degree of latitude is about 111 km.
GreatCircleMetres(p, q) == (Abs(p.latitude - q.latitude) * 111) \div 1000

RADIUS_M == EPS_KM * 1000

\* C22: reports are neighbours only within about 2 km: a new candidate whose
\* context reports are all farther away than that is in no cluster with them,
\* it is noise and scores 0.2.
C22_FarReportsNotClustered ==
    (/\ probe.unit = "cluster"
     /\ Len(probe.all_reports) >= 2
     /\ ReportIndex(probe.report, probe.all_reports) = 0
     /\ \A j \in 1..Len(probe.all_reports) :
           GreatCircleMetres(probe.all_reports[j], probe.report) > RADIUS_M) =>
        (CandidateLabel = -1 /\ probe.score = 200000)

\* A new candidate 50 km north of two reports at Cuttack, and of no other:
\* the three get one label and the candidate scores 0.7.
C22_ClusteredAtFiftyKm ==
    /\ probe.unit = "cluster"
    /\ probe.report = ReportAt(97, LatFiftyKm)
    /\ probe.all_reports = ClusterReports(2, 0)
    /\ \A j \in 1..2 : GreatCircleMetres(probe.all_reports[j], probe.report) >= 49000
    /\ FitPredict(Clustered) = <<0, 0, 0>>
    /\ probe.score = 700000

\* C24: the neutral 0.5 is returned without clustering exactly when context
\* and candidate together are fewer than 2 reports; with 2 or more the score
\* is the one of the candidate's cluster label.
C24_GuardOnTotal ==
    probe.unit = "cluster" =>
        IF Len(Clustered) < 2
        THEN probe.score = 500000
        ELSE probe.score = ScoreOfLabel(FitPredict(Clustered), CandidateLabel)

\* One context report and a new candidate are two reports in total: the
\* guard answers 0.5, where the candidate's label (noise) scores 0.2.
C24_TwoReportsNotClustered ==
    /\ probe.unit = "cluster"
    /\ Len(probe.all_reports) = 1
    /\ ReportIndex(probe.report, probe.all_reports) = 0
    /\ Len(Clustered) = 2
    /\ probe.score = 500000
    /\ ScoreOfLabel(FitPredict(Clustered), CandidateLabel) = 200000

\* The index of the candidate among the reports clustered.
CandidateIndex ==
    IF ReportIndex(probe.report, probe.all_reports) = 0
    THEN Len(Clustered)
    ELSE ReportIndex(probe.report, probe.all_reports)

\* C25: when clustering runs, a candidate with fewer than 3 reports (itself
\* included) within the radius of the clustering is noise and scores 0.2; it
\* has a cluster label only with 3 reports or more within the radius.
C25_NoiseBelowThreeNeighbours ==
    (probe.unit = "cluster" /\ Len(probe.all_reports) >= 2) =>
        /\ Cardinality(EpsNeighbours(Clustered, CandidateIndex)) < MIN_SAMPLES
              => (CandidateLabel = -1 /\ probe.score = 200000)
        /\ CandidateLabel # -1
              => Cardinality(EpsNeighbours(Clustered, CandidateIndex)) >= MIN_SAMPLES

\* A candidate at the edge of a cluster: it has two reports within the
\* radius, itself and the report halfway, which has three; it gets the label
\* of that report's cluster and scores 0.7.
C25_BorderPointLabelled ==
    /\ probe.unit = "cluster"
    /\ probe.report = ReportAt(98, LatFar)
    /\ probe.all_reports = ClusterReports(1, 0) \o MidReports(1, 0)
    /\ EpsNeighbours(Clustered, 3) = {2, 3}
    /\ EpsNeighbours(Clustered, 2) = {1, 2, 3}
    /\ CandidateLabel = 0
    /\ probe.score = 700000

\* The labels of the clusters found among the reports clustered.
ClusterLabels == {FitPredict(Clustered)[j] : j \in 1..Len(Clustered)} \ {-1}

\* C29: every cluster label has at least 3 members, and the score is 0.2,
\* 0.7, 0.85 or 1.0, or the 0.5 of the guard on fewer than 2 reports.
C29_NoSmallCluster ==
    probe.unit = "cluster" =>
        /\ \A label \in ClusterLabels :
              Cardinality({j \in 1..Len(Clustered) : FitPredict(Clustered)[j] = label})
                  >= MIN_SAMPLES
        /\ probe.score \in {200000, 500000, 700000, 850000, Micro}
        /\ probe.score = 500000 => Len(probe.all_reports) < 2

\* Two clusters side by side, the candidate in one of exactly three reports:
\* it scores 0.7.
C29_ClusterOfThreeBesideAnother ==
    /\ probe.unit = "cluster"
    /\ Len(probe.all_reports) >= 2
    /\ ClusterLabels = {0, 1}
    /\ CandidateLabel # -1
    /\ CandidateClusterSize = MIN_SAMPLES
    /\ probe.score = 700000

\* The photo boost applies to a result.
Boosted(l5_result) == l5_result.applied /\ l5_result.is_flood

FloodPositive(image) ==
    /\ image.len > 0
    /\ ValidateImage(image).valid
    /\ ValidateImage(image).is_flood_detected

\* C26: the final score of a returned result is min(combiner output + 0.1,
\* 1.0) when an image was supplied, accepted and classified flood-positive,
\* and the combiner output in every other case; the status is decided on
\* that score, which the result reports rounded.
C26_BoostAfterCombiner ==
    Returned =>
        /\ last.final_score =
              IF FloodPositive(last.call.image)
              THEN Min(Forward(weight_network, last.layer_scores) + 100000, Micro)
              ELSE Forward(weight_network, last.layer_scores)
        /\ last.result.status = Decide(last.final_score)
        /\ last.result.final_score = Round3(last.final_score)

\* A flood photo lifts a combiner output below the threshold over it: the
\* report is validated on the boosted score.
C26_ValidatedByTheBoost ==
    /\ Returned
    /\ FloodPositive(last.call.image)
    /\ Forward(weight_network, last.layer_scores) < VALIDATION_THRESHOLD
    /\ last.final_score = Forward(weight_network, last.layer_scores) + 100000
    /\ last.result.status = "validated"

\* C27: validate_image rejects a payload of fewer than 1000 or more than
\* 10,000,000 bytes unclassified and classifies every other one, those of
\* exactly 1000 and 10,000,000 bytes included; validate_report treats a
\* rejected image like no image: visual score 0.5, applied false, no boost.
C27_SizeLimits ==
    probe.unit = "aggregate" =>
        /\ (probe.image.len < 1000 \/ probe.image.len > 10000000) =>
              (/\ ~probe.cv_result.valid
               /\ ~probe.cv_result.is_flood_detected
               /\ probe.cv_result.score = 0)
        /\ (1000 <= probe.image.len /\ probe.image.len <= 10000000) =>
              (/\ probe.cv_result.valid
               /\ probe.cv_result.is_flood_detected = probe.image.is_flood
               /\ probe.cv_result.score >= 500000)
        /\ ~probe.cv_result.valid =>
              (/\ probe.l5_result = VisualLayer(NoImage)
               /\ probe.l5_result.layer5_score = 500000
               /\ ~probe.l5_result.applied
               /\ probe.final_score = probe.forward)

\* A flood photo of 999 bytes: rejected, the visual layer stays neutral and
\* the score is the combiner output, below the threshold that the boost
\* would have passed.
C27_RejectedBelowMinimum ==
    /\ probe.unit = "aggregate"
    /\ probe.image = Image(999, TRUE, 300000)
    /\ ~probe.cv_result.valid
    /\ probe.l5_result = [layer5_score |-> 500000, is_flood |-> FALSE,
                          water_coverage |-> 0, applied |-> FALSE]
    /\ probe.forward < VALIDATION_THRESHOLD
    /\ probe.forward + 100000 >= VALIDATION_THRESHOLD
    /\ probe.final_score = probe.forward
    /\ probe.status = "flagged"

\* The depths, in reading order, of the context reports less than radius
\* (millionths of a degree) from the report probed.
DepthsWithin(radius) ==
    LET close(row) == (row.lat - probe.lat) * (row.lat - probe.lat)
                      + (row.lon - probe.lon) * (row.lon - probe.lon) < radius * radius
        rows == SelectSeq(probe.recent_reports, close)
    IN  [i \in 1..Len(rows) |-> rows[i].depth]

SpatialSub ==
    LET count == Len(DepthsWithin(2000))
    IN  CASE Len(probe.recent_reports) = 0 -> 500000
          [] Len(probe.recent_reports) > 0 /\ count >= 5 -> Micro
          [] Len(probe.recent_reports) > 0 /\ count \in 3..4 -> 800000
          [] Len(probe.recent_reports) > 0 /\ count \in 1..2 -> 600000
          [] OTHER -> 400000

TemporalSub ==
    CASE probe.rainfall_24h > 100000 -> Micro
      [] probe.rainfall_24h > 50000 /\ probe.rainfall_24h <= 100000 -> 800000
      [] probe.rainfall_24h > 10000 /\ probe.rainfall_24h <= 50000 -> 600000
      [] probe.rainfall_24h > 0 /\ probe.rainfall_24h <= 10000 -> 400000
      [] OTHER -> 200000

\* With n depths d of sum S: n times the distance of the depth probed from
\* their mean, and n^2 (n - 1) times their sample variance.
MeanDistanceTimesN(d) == Abs(Len(d) * probe.depth - SumSeq(d))

VarianceScaled(d) ==
    SumSeq([i \in 1..Len(d) |-> (Len(d) * d[i] - SumSeq(d)) * (Len(d) * d[i] - SumSeq(d))])

\* z < k, for the z-score of the depth probed among the depths d.
ZBelow(d, k) ==
    MeanDistanceTimesN(d) * MeanDistanceTimesN(d) * (Len(d) - 1)
        < k * k * VarianceScaled(d)

OutlierSub ==
    LET d == DepthsWithin(5000)
    IN  CASE Len(d) < 3 -> 500000
          [] Len(d) >= 3 /\ VarianceScaled(d) = 0 ->
                IF MeanDistanceTimesN(d) < 50 * Len(d) THEN Micro ELSE 200000
          [] Len(d) >= 3 /\ VarianceScaled(d) # 0 /\ ZBelow(d, 1) -> Micro
          [] Len(d) >= 3 /\ VarianceScaled(d) # 0 /\ ~ZBelow(d, 1) /\ ZBelow(d, 2) -> 700000
          [] OTHER -> 200000

\* C28: layer2_score is 0.5 * spatial + 0.3 * temporal + 0.2 * outlier rounded
\* to 3 decimals, the three sub-scores being those of the tables on the count
\* of context reports within 0.002 degrees, on the rainfall, and on the
\* z-score of the depth among the context reports within 0.005 degrees.
C28_Layer2Formula ==
    probe.unit = "statistical" =>
        /\ probe.result.spatial_score = SpatialSub
        /\ probe.result.temporal_score = TemporalSub
        /\ probe.result.outlier_score = OutlierSub
        /\ probe.result.layer2_score =
              Round3((5 * SpatialSub + 3 * TemporalSub + 2 * OutlierSub) \div 10)

\* Three reports within 0.002 degrees, 100 mm of rain and a depth between one
\* and two standard deviations from the mean of the three:
\* 0.5 * 0.8 + 0.3 * 0.8 + 0.2 * 0.7 = 0.78.
C28_DepthBetweenOneAndTwoSigma ==
    /\ probe.unit = "statistical"
    /\ Len(DepthsWithin(2000)) = 3
    /\ Len(DepthsWithin(5000)) = 3
    /\ VarianceScaled(DepthsWithin(5000)) # 0
    /\ ~ZBelow(DepthsWithin(5000), 1) /\ ZBelow(DepthsWithin(5000), 2)
    /\ probe.rainfall_24h = 100000
    /\ probe.result.layer2_score = 780000

\* Score vectors as long as a network's weight vector.
ScoreVectors(n) == [1..n -> {0, 500000, Micro}]

\* C30: a network saved and loaded has the raw weights, bias and layer count
\* it had, the same forward output on every score vector and the same
\* normalized weights.
C30_LoadOfSave ==
    probe.unit = "persist" =>
        /\ ~probe.raises
        /\ probe.loaded.weights = probe.model.weights
        /\ probe.loaded.bias = probe.model.bias
        /\ probe.loaded.n_layers = probe.model.n_layers
        /\ \A layer_scores \in ScoreVectors(Len(probe.model.weights)) :
              Forward(probe.loaded, layer_scores) = Forward(probe.model, layer_scores)
        /\ GetWeightsRaises(probe.loaded) = GetWeightsRaises(probe.model)
        /\ ~GetWeightsRaises(probe.model)
              => GetWeights(probe.loaded) = GetWeights(probe.model)

\* A network with weights of seven digits, a negative one and a negative
\* bias: the file holds 1.234567, -0.000007 and -0.000001, and the loaded
\* network is the one saved.
C30_SevenDigitWeights ==
    /\ probe.unit = "persist"
    /\ probe.model.weights = <<1234567, -7, 999999, 100>>
    /\ probe.text.weights[1] = [negative |-> FALSE, integer |-> 1,
                                fraction |-> <<2, 3, 4, 5, 6, 7>>]
    /\ probe.text.weights[2] = [negative |-> TRUE, integer |-> 0,
                                fraction |-> <<0, 0, 0, 0, 0, 7>>]
    /\ probe.text.weights[4] = [negative |-> FALSE, integer |-> 0,
                                fraction |-> <<0, 0, 0, 1>>]
    /\ probe.loaded = probe.model

====
